---- MODULE Spec2Model ----
(***************************************************************************)
(* Verification model of the CORE-V debug transport stack:                 *)
(*   VSim (clock/reset driver)  ->  Tap (IEEE 1149.1 controller)           *)
(*   ->  DtmJtag (RISC-V JTAG DTM)  ->  Dmi (memory and register access).  *)
(*                                                                         *)
(* Representation.  A C++ unsigned value that can exceed 31 bits is        *)
(* modelled as the set of its bit positions that are 1 (uint64_t: a subset *)
(* of 0..63, uint32_t: a subset of 0..31), so that |, &, ~, << and >> are  *)
(* set operations and never overflow.  A 32-bit memory word is the tuple   *)
(* of its four bytes, least significant first.  A 32-bit byte address is   *)
(* the pair (word index, byte offset); word indices are taken modulo       *)
(* AddrWords = 2^30, which is exactly uint32_t arithmetic on multiples     *)
(* of 4.                                                                   *)
(***************************************************************************)
EXTENDS Integers, Sequences, FiniteSets, TLC

(***************************************************************************)
(* Bounds of the model                                                     *)
(***************************************************************************)
\* Fuel of gotoState's while loop: a loop that needs more is reported hung.
GotoFuel == 10
\* Largest number of dmiaccess captures a DUT operation stays in progress, and
\* of DMI accesses an abstract command stays busy.
MaxLat == 2

(***************************************************************************)
(* Bit-set arithmetic                                                      *)
(***************************************************************************)
\* Let(v, Body): Body of the value v, named once as LAMBDA's parameter; v is
\* evaluated first, as the one element of a set
Let(v, Body(_)) == CHOOSE y \in {Body(x) : x \in {v}} : TRUE

Square(x) == x * x

\* 2^n, by squaring 2^(n \div 2)
RECURSIVE Pow2(_)
Pow2(n) ==
  IF n = 0 THEN 1
  ELSE IF n % 2 = 0 THEN Square(Pow2(n \div 2))
  ELSE 2 * Square(Pow2(n \div 2))

\* The bits of the small natural n, as a bit set of the given width.
IntToBits(n, width) == {i \in 0..(width - 1) : (n \div Pow2(i)) % 2 = 1}

RECURSIVE BitsToInt(_)
BitsToInt(s) ==
  IF s = {} THEN 0
  ELSE Let(CHOOSE x \in s : TRUE, LAMBDA i : Pow2(i) + BitsToInt(s \ {i}))

\* v << k and v >> k on uint64_t
Shl64(v, k) == {i + k : i \in v} \cap (0..63)
Shr64(v, k) == {i - k : i \in {j \in v : j >= k}}
\* (v >> lo) & ((1 << width) - 1)
Field(v, lo, width) == {i - lo : i \in {j \in v : j >= lo /\ j < lo + width}}
Bit(v, i) == IF i \in v THEN 1 ELSE 0

(***************************************************************************)
(* Tap::State (Tap.h)                                                      *)
(***************************************************************************)
TEST_LOGIC_RESET == 0
RUN_TEST_IDLE == 1
SELECT_DR_SCAN == 2
CAPTURE_DR == 3
SHIFT_DR == 4
EXIT1_DR == 5
PAUSE_DR == 6
EXIT2_DR == 7
UPDATE_DR == 8
SELECT_IR_SCAN == 9
CAPTURE_IR == 10
SHIFT_IR == 11
EXIT1_IR == 12
PAUSE_IR == 13
EXIT2_IR == 14
UPDATE_IR == 15
NUM_STATES == 16
States == 0..(NUM_STATES - 1)

IR_LEN == 5

\* DtmJtag::IrReg
BYPASS0 == 0
IDCODE == 1
DTMCS == 16
DMIACCESS == 17
BYPASS1 == 31

\* DtmJtag::Op and DtmJtag::Res
OP_NOP == 0
OP_READ == 1
OP_WRITE == 2
RES_OK == 0
RES_ERROR == 2
RES_RETRY == 3

(***************************************************************************)
(* VSim: the clock and reset driver.  Time is counted in main-clock        *)
(* half-periods (mClkHalfPeriodTicks = 1 unit).  Tick counts at or beyond  *)
(* the reset period are kept modulo the TCK period, which preserves        *)
(* everything the code computes from them (inReset, the TCK level and its  *)
(* edges).                                                                 *)
(***************************************************************************)
ClkHalfPeriodTicks == 1
TckHalfPeriodTicks == ClkHalfPeriodTicks * 2
ResetPeriodTicks == TckHalfPeriodTicks * 10

VSimInit(simTime) ==
  [tick |-> 0, tck |-> 1, rstn |-> 0, pos |-> TRUE, neg |-> FALSE,
   tms |-> 0, tdi |-> 0, simTime |-> simTime]

inReset(v) == v.tick < ResetPeriodTicks

allDone(v) == (v.simTime # 0) /\ (v.tick >= v.simTime)

\* An advance whose flags follow the level of TCK, not the transition
advanceHalfPeriodLevel(v) ==
  Let(v.tick + ClkHalfPeriodTicks, LAMBDA t1 :
  Let(IF t1 >= ResetPeriodTicks + 2 * TckHalfPeriodTicks
      THEN t1 - 2 * TckHalfPeriodTicks ELSE t1, LAMBDA t :
  Let(1 - ((t \div TckHalfPeriodTicks) % 2), LAMBDA newTck :
    [v EXCEPT !.tick = t,
              !.rstn = IF t < ResetPeriodTicks THEN 0 ELSE 1,
              !.tck = newTck,
              !.pos = (newTck = 1),
              !.neg = (newTck = 0)])))

\* void VSim::advanceHalfPeriod ()
advanceHalfPeriod(v) ==
  Let(v.tick + ClkHalfPeriodTicks, LAMBDA t1 :
  Let(IF t1 >= ResetPeriodTicks + 2 * TckHalfPeriodTicks
      THEN t1 - 2 * TckHalfPeriodTicks ELSE t1, LAMBDA t :
  Let(1 - ((t \div TckHalfPeriodTicks) % 2), LAMBDA newTck :
    [v EXCEPT !.tick = t,
              !.rstn = IF t < ResetPeriodTicks THEN 0 ELSE 1,
              !.tck = newTck,
              !.pos = (v.tck = 0) /\ (newTck = 1),
              !.neg = (v.tck = 1) /\ (newTck = 0)])))

(***************************************************************************)
(* The device under test, seen through its JTAG pins.  The RTL is not part *)
(* of the repository; this is the device the Tap and DtmJtag code is       *)
(* written for: the IEEE 1149.1 controller with a RISC-V DTM (Debug Spec   *)
(* 0.13.2) behind it, whose TDO presents, after the falling edge, the bit  *)
(* shifted out at the preceding rising edge.                               *)
(***************************************************************************)
\* The standard IEEE 1149.1 transition graph.
Ieee1149Next(s, tms) ==
  CASE s = TEST_LOGIC_RESET -> IF tms = 1 THEN TEST_LOGIC_RESET ELSE RUN_TEST_IDLE
    [] s = RUN_TEST_IDLE -> IF tms = 1 THEN SELECT_DR_SCAN ELSE RUN_TEST_IDLE
    [] s = SELECT_DR_SCAN -> IF tms = 1 THEN SELECT_IR_SCAN ELSE CAPTURE_DR
    [] s = CAPTURE_DR -> IF tms = 1 THEN EXIT1_DR ELSE SHIFT_DR
    [] s = SHIFT_DR -> IF tms = 1 THEN EXIT1_DR ELSE SHIFT_DR
    [] s = EXIT1_DR -> IF tms = 1 THEN UPDATE_DR ELSE PAUSE_DR
    [] s = PAUSE_DR -> IF tms = 1 THEN EXIT2_DR ELSE PAUSE_DR
    [] s = EXIT2_DR -> IF tms = 1 THEN UPDATE_DR ELSE SHIFT_DR
    [] s = UPDATE_DR -> IF tms = 1 THEN SELECT_DR_SCAN ELSE RUN_TEST_IDLE
    [] s = SELECT_IR_SCAN -> IF tms = 1 THEN TEST_LOGIC_RESET ELSE CAPTURE_IR
    [] s = CAPTURE_IR -> IF tms = 1 THEN EXIT1_IR ELSE SHIFT_IR
    [] s = SHIFT_IR -> IF tms = 1 THEN EXIT1_IR ELSE SHIFT_IR
    [] s = EXIT1_IR -> IF tms = 1 THEN UPDATE_IR ELSE PAUSE_IR
    [] s = PAUSE_IR -> IF tms = 1 THEN EXIT2_IR ELSE PAUSE_IR
    [] s = EXIT2_IR -> IF tms = 1 THEN UPDATE_IR ELSE SHIFT_IR
    [] OTHER -> IF tms = 1 THEN SELECT_DR_SCAN ELSE RUN_TEST_IDLE

\* The DMI registers the model keeps in the device (plain read/write).
DutRegAddrs == {4, 16, 60}
DutIdcode == {0, 1, 6, 7, 8, 12, 16, 18, 20, 23, 26, 29}

DutInit(abits, idle, kind) ==
  [tap |-> RUN_TEST_IDLE, lastTck |-> 1, ir |-> IDCODE, irsh |-> {},
   dr |-> {}, drlen |-> 1, outbit |-> 0, tdo |-> 0,
   abits |-> abits, idle |-> idle, kind |-> kind,
   stat |-> RES_OK, lat |-> 0, pendStat |-> RES_OK,
   dmiData |-> {}, dmiAddr |-> 0,
   regs |-> [a \in DutRegAddrs |-> {}]]

DutDrLen(d) ==
  CASE d.ir = IDCODE -> 32
    [] d.ir = DTMCS -> 32
    [] d.ir = DMIACCESS -> 34 + d.abits
    [] OTHER -> 1

\* Capture-DR: the value loaded into the shift register, and the DTM's
\* bookkeeping of the operation in progress.
DutCaptureDr(d) ==
  CASE d.ir = IDCODE -> [d EXCEPT !.dr = DutIdcode, !.drlen = 32]
    [] d.ir = DTMCS ->
         [d EXCEPT !.dr = {0} \cup {i + 4 : i \in IntToBits(d.abits, 6)}
                          \cup {i + 10 : i \in IntToBits(d.stat, 2)}
                          \cup {i + 12 : i \in IntToBits(d.idle, 3)},
                   !.drlen = 32]
    [] d.ir = DMIACCESS ->
         IF d.lat > 0
         THEN \* operation still in progress: sticky busy
              [d EXCEPT !.stat = RES_RETRY, !.lat = d.lat - 1,
                        !.dr = {0, 1} \cup {i + 34 : i \in IntToBits(d.dmiAddr, d.abits)},
                        !.drlen = 34 + d.abits]
         ELSE Let(IF d.stat = RES_OK THEN d.pendStat ELSE d.stat, LAMBDA st :
                [d EXCEPT !.stat = st, !.pendStat = RES_OK,
                          !.dr = IntToBits(st, 2) \cup {i + 2 : i \in d.dmiData}
                                 \cup {i + 34 : i \in IntToBits(d.dmiAddr, d.abits)},
                          !.drlen = 34 + d.abits])
    [] OTHER -> [d EXCEPT !.dr = {}, !.drlen = 1]

\* Update-DR: dtmcs resets, or the start of a DMI operation.  env.lat is how
\* long the operation stays in progress, env.err whether it fails.
DutUpdateDr(d, env) ==
  CASE d.ir = DTMCS ->
         IF 17 \in d.dr
         THEN [d EXCEPT !.stat = RES_OK, !.pendStat = RES_OK, !.lat = 0]
         ELSE IF 16 \in d.dr THEN [d EXCEPT !.stat = RES_OK] ELSE d
    [] d.ir = DMIACCESS ->
         Let(BitsToInt(Field(d.dr, 0, 2)), LAMBDA op :
         Let(Field(d.dr, 2, 32), LAMBDA data :
         Let(BitsToInt(Field(d.dr, 34, d.abits)), LAMBDA addr :
           IF d.stat # RES_OK \/ op = OP_NOP \/ op = 3 THEN d
           ELSE IF op = OP_WRITE
           THEN [d EXCEPT !.regs = IF addr \in DutRegAddrs
                                   THEN [d.regs EXCEPT ![addr] = data] ELSE d.regs,
                          !.dmiAddr = addr, !.dmiData = data,
                          !.lat = env.lat,
                          !.pendStat = IF env.err THEN RES_ERROR ELSE RES_OK]
           ELSE [d EXCEPT !.dmiAddr = addr,
                          !.dmiData = IF addr \in DutRegAddrs THEN d.regs[addr] ELSE {},
                          !.lat = env.lat,
                          !.pendStat = IF env.err THEN RES_ERROR ELSE RES_OK])))
    [] OTHER -> d

\* A rising edge of TCK seen by the device with the pins tms and tdi.
DutRise(d, tms, tdi, env) ==
  Let(CASE d.tap = CAPTURE_DR -> DutCaptureDr(d)
        [] d.tap = SHIFT_DR ->
             [d EXCEPT !.outbit = Bit(d.dr, 0),
                       !.dr = Shr64(d.dr, 1) \cup (IF tdi = 1 THEN {d.drlen - 1} ELSE {})]
        [] d.tap = CAPTURE_IR -> [d EXCEPT !.irsh = {0}]
        [] d.tap = SHIFT_IR ->
             [d EXCEPT !.outbit = Bit(d.irsh, 0),
                       !.irsh = Shr64(d.irsh, 1) \cup (IF tdi = 1 THEN {IR_LEN - 1} ELSE {})]
        [] OTHER -> [d EXCEPT !.outbit = 0], LAMBDA d1 :
  Let(Ieee1149Next(d.tap, tms), LAMBDA s2 :
  Let([d1 EXCEPT !.tap = s2], LAMBDA d2 :
    CASE s2 = UPDATE_DR -> DutUpdateDr(d2, env)
      [] s2 = UPDATE_IR -> [d2 EXCEPT !.ir = BitsToInt(d2.irsh)]
      [] OTHER -> d2)))

\* VSim::eval: the device sees the pins as they are now.
DutEval(d, v, env) ==
  [(IF v.rstn = 0 THEN [d EXCEPT !.tap = RUN_TEST_IDLE, !.ir = IDCODE]
    ELSE IF d.lastTck = 0 /\ v.tck = 1 THEN DutRise(d, v.tms, v.tdi, env)
    ELSE IF d.lastTck = 1 /\ v.tck = 0 THEN [d EXCEPT !.tdo = d.outbit]
    ELSE d) EXCEPT !.lastTck = v.tck]

(***************************************************************************)
(* Tap: the host's IEEE 1149.1 controller.  The operators below work on a  *)
(* context c = [cur: mCurrState, mcu: the VSim, dut: the device,           *)
(* trace: the TCK cycles taken so far in this call, hung: a gotoState loop *)
(* ran out of fuel, env: the device's choices for this call].              *)
(***************************************************************************)
\* A table in which TMS = 1 leads from Select-IR-Scan back to Select-DR-Scan
transNoReset ==
  << <<RUN_TEST_IDLE, TEST_LOGIC_RESET>>, <<RUN_TEST_IDLE, SELECT_DR_SCAN>>,
     <<CAPTURE_DR, SELECT_IR_SCAN>>, <<SHIFT_DR, EXIT1_DR>>,
     <<SHIFT_DR, EXIT1_DR>>, <<PAUSE_DR, UPDATE_DR>>,
     <<PAUSE_DR, EXIT2_DR>>, <<SHIFT_DR, UPDATE_DR>>,
     <<RUN_TEST_IDLE, SELECT_DR_SCAN>>, <<CAPTURE_IR, SELECT_DR_SCAN>>,
     <<SHIFT_IR, EXIT1_IR>>, <<SHIFT_IR, EXIT1_IR>>,
     <<PAUSE_IR, UPDATE_IR>>, <<PAUSE_IR, EXIT2_IR>>,
     <<SHIFT_IR, UPDATE_IR>>, <<RUN_TEST_IDLE, SELECT_DR_SCAN>> >>

\* Tap::nextState: trans[mCurrState][tms]
trans ==
  << <<RUN_TEST_IDLE, TEST_LOGIC_RESET>>, <<RUN_TEST_IDLE, SELECT_DR_SCAN>>,
     <<CAPTURE_DR, SELECT_IR_SCAN>>, <<SHIFT_DR, EXIT1_DR>>,
     <<SHIFT_DR, EXIT1_DR>>, <<PAUSE_DR, UPDATE_DR>>,
     <<PAUSE_DR, EXIT2_DR>>, <<SHIFT_DR, UPDATE_DR>>,
     <<RUN_TEST_IDLE, SELECT_DR_SCAN>>, <<CAPTURE_IR, TEST_LOGIC_RESET>>,
     <<SHIFT_IR, EXIT1_IR>>, <<SHIFT_IR, EXIT1_IR>>,
     <<PAUSE_IR, UPDATE_IR>>, <<PAUSE_IR, EXIT2_IR>>,
     <<SHIFT_IR, UPDATE_IR>>, <<RUN_TEST_IDLE, SELECT_DR_SCAN>> >>

\* A nextState that reads the table with the columns exchanged
nextStateSwapped(cur, tms) == IF tms = 1 THEN trans[cur + 1][1] ELSE trans[cur + 1][2]

nextState(cur, tms) == IF tms = 1 THEN trans[cur + 1][2] ELSE trans[cur + 1][1]

\* The table with TMS = 0 from Pause-DR towards Exit2-DR: the controller stays
\* in Pause-DR
nextStateTabPauseStays ==
  << <<1, 0, 0, 0, 0, 0, 0, 0, 0, 0, 0, 0, 0, 0, 0, 0>>,
     <<1, 0, 1, 1, 1, 1, 1, 1, 1, 1, 1, 1, 1, 1, 1, 1>>,
     <<1, 1, 1, 0, 0, 0, 0, 0, 0, 1, 1, 1, 1, 1, 1, 1>>,
     <<1, 1, 1, 1, 0, 1, 1, 1, 1, 1, 1, 1, 1, 1, 1, 1>>,
     <<1, 1, 1, 1, 0, 1, 1, 1, 1, 1, 1, 1, 1, 1, 1, 1>>,
     <<1, 1, 1, 1, 1, 1, 0, 0, 1, 1, 1, 1, 1, 1, 1, 1>>,
     <<1, 1, 1, 1, 1, 1, 0, 0, 1, 1, 1, 1, 1, 1, 1, 1>>,
     <<1, 1, 1, 1, 0, 0, 0, 0, 1, 1, 1, 1, 1, 1, 1, 1>>,
     <<1, 0, 1, 1, 1, 1, 1, 1, 1, 1, 1, 1, 1, 1, 1, 1>>,
     <<1, 1, 1, 1, 1, 1, 1, 1, 1, 1, 0, 0, 0, 0, 0, 0>>,
     <<1, 1, 1, 1, 1, 1, 1, 1, 1, 1, 1, 0, 1, 1, 1, 1>>,
     <<1, 1, 1, 1, 1, 1, 1, 1, 1, 1, 1, 0, 1, 1, 1, 1>>,
     <<1, 1, 1, 1, 1, 1, 1, 1, 1, 1, 1, 1, 1, 0, 0, 1>>,
     <<1, 1, 1, 1, 1, 1, 1, 1, 1, 1, 1, 1, 1, 0, 1, 1>>,
     <<1, 1, 1, 1, 1, 1, 1, 1, 1, 1, 1, 0, 0, 0, 0, 1>>,
     <<1, 0, 1, 1, 1, 1, 1, 1, 1, 1, 1, 1, 1, 1, 1, 1>> >>

\* Tap::gotoState: nextStateTab[from][to], the TMS value of the first step
nextStateTab ==
  << <<1, 0, 0, 0, 0, 0, 0, 0, 0, 0, 0, 0, 0, 0, 0, 0>>,
     <<1, 0, 1, 1, 1, 1, 1, 1, 1, 1, 1, 1, 1, 1, 1, 1>>,
     <<1, 1, 1, 0, 0, 0, 0, 0, 0, 1, 1, 1, 1, 1, 1, 1>>,
     <<1, 1, 1, 1, 0, 1, 1, 1, 1, 1, 1, 1, 1, 1, 1, 1>>,
     <<1, 1, 1, 1, 0, 1, 1, 1, 1, 1, 1, 1, 1, 1, 1, 1>>,
     <<1, 1, 1, 1, 1, 1, 0, 0, 1, 1, 1, 1, 1, 1, 1, 1>>,
     <<1, 1, 1, 1, 1, 1, 0, 1, 1, 1, 1, 1, 1, 1, 1, 1>>,
     <<1, 1, 1, 1, 0, 0, 0, 0, 1, 1, 1, 1, 1, 1, 1, 1>>,
     <<1, 0, 1, 1, 1, 1, 1, 1, 1, 1, 1, 1, 1, 1, 1, 1>>,
     <<1, 1, 1, 1, 1, 1, 1, 1, 1, 1, 0, 0, 0, 0, 0, 0>>,
     <<1, 1, 1, 1, 1, 1, 1, 1, 1, 1, 1, 0, 1, 1, 1, 1>>,
     <<1, 1, 1, 1, 1, 1, 1, 1, 1, 1, 1, 0, 1, 1, 1, 1>>,
     <<1, 1, 1, 1, 1, 1, 1, 1, 1, 1, 1, 1, 1, 0, 0, 1>>,
     <<1, 1, 1, 1, 1, 1, 1, 1, 1, 1, 1, 1, 1, 0, 1, 1>>,
     <<1, 1, 1, 1, 1, 1, 1, 1, 1, 1, 1, 0, 0, 0, 0, 1>>,
     <<1, 0, 1, 1, 1, 1, 1, 1, 1, 1, 1, 1, 1, 1, 1, 1>> >>

TapCtx(cur, mcu, d, env) ==
  [cur |-> cur, mcu |-> mcu, dut |-> d, trace |-> <<>>, hung |-> FALSE, env |-> env,
   drv |-> {}, smp |-> {}]

\* mMcu->tms (tms), with or without mMcu->tdi: the pins are written, and the
\* record says by whom and whether tapPosedge () was true
Drive(c, by, tms) ==
  [c EXCEPT !.mcu.tms = tms,
            !.drv = @ \cup {[by |-> by, tms |-> tms, pos |-> c.mcu.pos]}]

\* mMcu->tdo (): the pin is read, and the record says by whom and whether
\* tapNegedge () was true
Sample(c, by) == [c EXCEPT !.smp = @ \cup {[by |-> by, neg |-> c.mcu.neg]}]

\* mMcu->eval (); mMcu->advanceHalfPeriod ();
evalAdvance(c) ==
  [c EXCEPT !.dut = DutEval(c.dut, c.mcu, c.env), !.mcu = advanceHalfPeriod(c.mcu)]

RECURSIVE untilPosedge(_)
untilPosedge(c) == IF c.mcu.pos THEN c ELSE untilPosedge(evalAdvance(c))

RECURSIVE untilNegedge(_)
untilNegedge(c) == IF c.mcu.neg THEN c ELSE untilNegedge(evalAdvance(c))

\* An advanceState that sets TMS and TDI on entry, before the posedge wait
advanceStateNoWait(c, tms, tdi) ==
  Let(Sample(untilNegedge(untilPosedge([Drive(c, "advanceState", tms)
                                          EXCEPT !.mcu.tdi = tdi])), "advanceState"),
      LAMBDA c3 :
  Let(nextState(c3.cur, c3.mcu.tms), LAMBDA nxt :
    [c |-> [c3 EXCEPT !.cur = nxt,
                      !.trace = Append(c3.trace,
                                  [from |-> c3.cur, to |-> nxt, tms |-> tms,
                                   tdi |-> tdi, tdo |-> c3.dut.tdo])],
     tdo |-> c3.dut.tdo]))

\* Tap::advanceState.  The result carries the TDO read in field tdo.
advanceState(c, tms, tdi) ==
  Let(Sample(untilNegedge([Drive(untilPosedge(c), "advanceState", tms)
                             EXCEPT !.mcu.tdi = tdi]), "advanceState"),
      LAMBDA c3 :
  Let(nextState(c3.cur, c3.mcu.tms), LAMBDA nxt :
    [c |-> [c3 EXCEPT !.cur = nxt,
                      !.trace = Append(c3.trace,
                                  [from |-> c3.cur, to |-> nxt, tms |-> tms,
                                   tdi |-> tdi, tdo |-> c3.dut.tdo])],
     tdo |-> c3.dut.tdo]))

RECURSIVE gotoStateLoop(_, _, _)
gotoStateLoop(c, s, fuel) ==
  IF c.cur = s THEN c
  ELSE IF fuel = 0 THEN [c EXCEPT !.hung = TRUE]
  ELSE gotoStateLoop(advanceState(c, nextStateTab[c.cur + 1][s + 1], 0).c, s, fuel - 1)

\* Tap::gotoState: bool tdo_reg = mMcu->tdo (), then the loop
gotoState(c, s) == gotoStateLoop(Sample(c, "gotoState"), s, GotoFuel)

\* (ireg & (1 << i)) != 0 on a uint8_t
IrBit(ireg, i) == (ireg \div Pow2(i)) % 2

RECURSIVE shiftIrLoop(_, _, _)
shiftIrLoop(c, ireg, i) ==
  IF i < IR_LEN - 1
  THEN Let(advanceState(c, 0, IrBit(ireg, i)), LAMBDA a :
         IF a.tdo \in {0, 1} THEN shiftIrLoop(a.c, ireg, i + 1) ELSE c)
  ELSE c

\* Tap::shiftIr
shiftIr(c, ireg) ==
  Let(gotoState(c, SHIFT_IR), LAMBDA c1 :
  Let(shiftIrLoop(c1, ireg, 0), LAMBDA c2 :
  Let(advanceState(c2, 1, IrBit(ireg, IR_LEN - 1)).c, LAMBDA c3 :
    gotoState(c3, UPDATE_IR))))

\* One turn of the for loop of Tap::shiftDr, on l = [c, regOut]
shiftDrStep(l, dreg, i) ==
  Let(advanceState(l.c, 0, Bit(dreg, i)), LAMBDA a :
    [c |-> a.c, regOut |-> IF a.tdo = 1 THEN l.regOut \cup {i - 1} ELSE l.regOut])

\* The for loop of Tap::shiftDr, i from 1 while i < len - 1, as its turns
\* lo <= i < hi taken in order: the first half of them, then the rest
RECURSIVE shiftDrLoop(_, _, _, _)
shiftDrLoop(l, dreg, lo, hi) ==
  IF lo >= hi THEN l
  ELSE IF hi = lo + 1 THEN shiftDrStep(l, dreg, lo)
  ELSE Let(shiftDrLoop(l, dreg, lo, (lo + hi) \div 2), LAMBDA m :
         shiftDrLoop(m, dreg, (lo + hi) \div 2, hi))

\* 1ULL << (len - 2) with len a size_t: for len = 1 the shift count is
\* 2^64 - 1, undefined behaviour; env.ubShift is what the build makes of it
\* (x86 masks the count to 63, other targets give 0).
ShlPenultimate(len, env) == IF len >= 2 THEN {len - 2} ELSE env.ubShift

\* Tap::shiftDr, for 1 <= len <= 64
shiftDr(c, dreg, len) ==
  Let(gotoState(c, SHIFT_DR), LAMBDA c0 :
  Let(advanceState(c0, 0, Bit(dreg, 0)), LAMBDA a1 :
  Let(shiftDrLoop([c |-> a1.c, regOut |-> {}], dreg, 1, len - 1), LAMBDA l :
  Let(advanceState(l.c, 1, Bit(dreg, len - 1)), LAMBDA a2 :
  Let(IF a2.tdo = 1 THEN l.regOut \cup ShlPenultimate(len, c.env) ELSE l.regOut,
      LAMBDA r2 :
  Let(advanceState(a2.c, 0, Bit(dreg, len - 1)), LAMBDA a3 :
  Let(IF a3.tdo = 1 THEN r2 \cup {len - 1} ELSE r2, LAMBDA r3 :
    [c |-> gotoState(a3.c, UPDATE_DR), regOut |-> r3])))))))

RECURSIVE rtiLoop(_, _, _)
rtiLoop(c, i, rti) ==
  IF i < rti THEN rtiLoop(gotoState(c, RUN_TEST_IDLE), i + 1, rti) ELSE c

\* The branch of Tap::accessReg on mLastIr
accessRegIr(c, lastIr, rti, ir) ==
  IF lastIr = ir THEN rtiLoop(c, 0, rti) ELSE shiftIr(c, ir)

\* A Tap::accessReg that returns the controller to Run-Test/Idle
accessRegToIdle(c, lastIr, rti, ir, wdata, len) ==
  IF len > 64 THEN [c |-> c, reg |-> {}, exited |-> TRUE]
  ELSE Let(shiftDr(accessRegIr(c, lastIr, rti, ir), wdata, len), LAMBDA r :
         [c |-> gotoState(r.c, RUN_TEST_IDLE), reg |-> r.regOut, exited |-> FALSE])

\* A Tap::accessReg that looks at len only after the IR has been dealt with
accessRegLateCheck(c, lastIr, rti, ir, wdata, len) ==
  Let(accessRegIr(c, lastIr, rti, ir), LAMBDA c1 :
    IF len > 64 THEN [c |-> c1, reg |-> {}, exited |-> TRUE]
    ELSE Let(shiftDr(c1, wdata, len), LAMBDA r :
           [c |-> gotoState(r.c, UPDATE_DR), reg |-> r.regOut, exited |-> FALSE]))

\* Tap::accessReg.  exited: the call ended in exit (EXIT_FAILURE).
accessReg(c, lastIr, rti, ir, wdata, len) ==
  IF len > 64 THEN [c |-> c, reg |-> {}, exited |-> TRUE]
  ELSE Let(shiftDr(accessRegIr(c, lastIr, rti, ir), wdata, len), LAMBDA r :
         [c |-> gotoState(r.c, UPDATE_DR), reg |-> r.regOut, exited |-> FALSE])

\* A reset loop that holds TMS high, as IEEE 1149.1 resets a controller
RECURSIVE resetLoopTmsHigh(_)
resetLoopTmsHigh(c) ==
  IF inReset(c.mcu)
  THEN IF allDone(c.mcu) THEN [c |-> c, ok |-> FALSE]
       ELSE resetLoopTmsHigh(evalAdvance(Drive(c, "reset", 1)))
  ELSE [c |-> c, ok |-> TRUE]

\* The while loop of Tap::reset; ok = FALSE: allDone was seen in reset.
RECURSIVE resetLoop(_)
resetLoop(c) ==
  IF inReset(c.mcu)
  THEN IF allDone(c.mcu) THEN [c |-> c, ok |-> FALSE]
       ELSE resetLoop(evalAdvance(Drive(c, "reset", 0)))
  ELSE [c |-> c, ok |-> TRUE]

\* A Tap::reset that records Test-Logic-Reset, as IEEE 1149.1 would have it
resetToTlr(c) ==
  Let(resetLoop(c), LAMBDA r :
    IF r.ok THEN [c |-> [r.c EXCEPT !.cur = TEST_LOGIC_RESET], ok |-> TRUE] ELSE r)

\* Tap::reset
reset(c) ==
  Let(resetLoop(c), LAMBDA r :
    IF r.ok THEN [c |-> [r.c EXCEPT !.cur = RUN_TEST_IDLE], ok |-> TRUE] ELSE r)

\* Tap::writeReg: accessReg with the result dropped
writeReg(c, lastIr, rti, ir, wdata, len) ==
  [accessReg(c, lastIr, rti, ir, wdata, len) EXCEPT !.reg = {}]

\* Tap::readReg: accessReg (ir, 0ULL, len)
readReg(c, lastIr, rti, ir, len) == accessReg(c, lastIr, rti, ir, {}, len)

(***************************************************************************)
(* DtmJtag: the debug transport module over the Tap.  A tap handle         *)
(* t = [c, lastIr, rti] is the Tap together with the simulator and device. *)
(***************************************************************************)
\* The cycles of earlier scans are of no interest to the DTM
Fresh(c) == [c EXCEPT !.trace = <<>>]

\* DtmJtag::readIdcode: the uint32_t of readReg (IDCODE, 32)
readIdcode(c, lastIr, rti) ==
  Let(readReg(Fresh(c), lastIr, rti, IDCODE, 32), LAMBDA r :
    [r EXCEPT !.reg = Field(r.reg, 0, 32)])

\* DtmJtag::readDtmcs: the uint32_t of readReg (DTMCS, 32)
readDtmcs(c, lastIr, rti) ==
  Let(readReg(Fresh(c), lastIr, rti, DTMCS, 32), LAMBDA r :
    [r EXCEPT !.reg = Field(r.reg, 0, 32)])

\* DtmJtag::writeDtmcs
writeDtmcs(c, lastIr, rti, val) == writeReg(Fresh(c), lastIr, rti, DTMCS, val, 32)

\* 0x30000: dmireset together with dmihardreset
DtmcsHardReset == {16, 17}

\* 0x10000, the value dmiRead and dmiWrite give writeDtmcs on RETRY
DtmcsOnRetry == {16}

\* ~((~0ULL) << addrSize)
DmiAddrMaskOf(addrSize) == (0..63) \ Shl64(0..63, addrSize)

\* The field taken one bit too high: (dtmcs >> 5) & 0x3f
DtmcsAbitsHigh(dtmcs) == BitsToInt(Field(dtmcs, 5, 6))

\* addrSize of DtmJtag::reset: (dtmcs >> 4) & 0x3f
DtmcsAbits(dtmcs) == BitsToInt(Field(dtmcs, 4, 6))

\* The argument of mTap->rtiCount in DtmJtag::reset: (dtmcs >> 12) & 0x7
DtmcsIdle(dtmcs) == BitsToInt(Field(dtmcs, 12, 3))

\* DtmJtag::reset.  width and mask are the members before the call;
\* exited: a scan ended the process.
dtmReset(c, lastIr, rti, width, mask) ==
  Let(reset(c), LAMBDA t :
  Let([ok |-> FALSE, c |-> t.c, rti |-> rti, width |-> width, mask |-> mask,
       idcode |-> {}, dtmcs |-> {}, exited |-> FALSE], LAMBDA stay :
    IF ~t.ok THEN stay
    ELSE Let(readIdcode(t.c, lastIr, rti), LAMBDA a :
      IF a.exited THEN [stay EXCEPT !.c = a.c, !.exited = TRUE]
      ELSE Let(readDtmcs(a.c, lastIr, rti), LAMBDA b :
        IF b.exited THEN [stay EXCEPT !.c = b.c, !.exited = TRUE]
        ELSE Let(DtmcsIdle(b.reg), LAMBDA rti1 :
             Let(DtmcsAbits(b.reg), LAMBDA addrSize :
             Let(writeDtmcs(b.c, lastIr, rti1, {16}), LAMBDA w :
               [ok |-> ~w.exited, c |-> w.c, rti |-> rti1,
                width |-> 34 + addrSize,
                mask |-> DmiAddrMaskOf(addrSize),
                idcode |-> a.reg, dtmcs |-> b.reg, exited |-> w.exited])))))))

\* reg = OP_READ; reg |= (address & mDmiAddrMask) << 34
dmiReadReg(address, mask) ==
  IntToBits(OP_READ, 2) \cup Shl64(IntToBits(address, 31) \cap mask, 34)

\* A dmiWrite that packs the data one bit low
dmiWriteRegLow(address, wdata, mask) ==
  IntToBits(OP_WRITE, 2) \cup Shl64(wdata, 1)
    \cup Shl64(IntToBits(address, 31) \cap mask, 34)

\* reg = OP_WRITE; reg |= wdata << 2; reg |= (address & mDmiAddrMask) << 34
dmiWriteReg(address, wdata, mask) ==
  IntToBits(OP_WRITE, 2) \cup Shl64(wdata, 2)
    \cup Shl64(IntToBits(address, 31) \cap mask, 34)

\* reg & 0x3ULL
DmiRes(reg) == BitsToInt(Field(reg, 0, 2))

\* dmiRead's result: (reg >> 2) & 0xffffffffULL
DmiData(reg) == Field(Shr64(reg, 2), 0, 32)

\* A poll loop that returns after its first scan
dmiPollNextOnce(reg) == "idle"

\* A poll loop that scans again without the DMI reset
dmiPollNextNoReset(reg) == IF DmiRes(reg) = RES_RETRY THEN "poll" ELSE "idle"

\* The body of the while (true) loop of dmiRead and dmiWrite after the scan:
\* on RETRY writeDtmcs and go round again, otherwise break
dmiPollNext(reg) == IF DmiRes(reg) = RES_RETRY THEN "dmireset" ELSE "idle"

(***************************************************************************)
(* The system bus of the debug module, as the device implements it (RISC-V *)
(* Debug Spec 0.13.2, sbcs / sbaddress0 / sbdata0).  The RTL is not part   *)
(* of the repository.  The record d holds the control bits of sbcs, the    *)
(* address (a word index), the data word, the polls the current access     *)
(* still shows busy, the latency of an access, and the memory.             *)
(***************************************************************************)
AddrWords == 1073741824
SBCS_DMI_ADDR == 56
SBADDRESS0_DMI_ADDR == 57
SBDATA0_DMI_ADDR == 60
SBACCESS_32 == 2
SBERR_NONE == 0
SBERR_BAD_ADDR == 2
SBERR_BAD_SIZE == 4
SBERR_OTHER == 7
SBBUSYERROR_OFFSET == 22
SBBUSY_OFFSET == 21
SBREADONADDR_OFFSET == 20
SBACCESS_OFFSET == 17
SBAUTOINCREMENT_OFFSET == 16
SBREADONDATA_OFFSET == 15
SBERROR_OFFSET == 12
\* Sbcs::RESET_VALUE, 0x20040000
SbcsResetValue == {29, 18}
SbcsErrorBits == {12, 13, 14}
SbcsAccessBits == {17, 18, 19}

\* What a read of a location without memory returns: 0xbadcab1e
BadCable == <<30, 171, 220, 186>>

SbMemRead(mem, a) == IF a \in DOMAIN mem THEN mem[a] ELSE BadCable

SbMemWrite(mem, a, w) == IF a \in DOMAIN mem THEN [mem EXCEPT ![a] = w] ELSE mem

SbAfterAccess(d) ==
  [d EXCEPT !.sbaddr = IF SBAUTOINCREMENT_OFFSET \in d.sbcs
                       THEN (d.sbaddr + 1) % AddrWords ELSE d.sbaddr,
            !.busy = d.lat,
            !.fault = IF @ > 0 THEN @ - 1 ELSE 0]

\* The bus access that fails: sberror takes the bits ferr, nothing is
\* transferred
SbFail(d) == [d EXCEPT !.sbcs = @ \cup d.ferr, !.fault = 0]

SbBlocked(d) == d.sbcs \cap (SbcsErrorBits \cup {SBBUSYERROR_OFFSET}) # {}

\* A bus read at sbaddress into sbdata
SbStartRead(d) ==
  IF SbBlocked(d) THEN d
  ELSE IF d.busy > 0 THEN [d EXCEPT !.sbcs = @ \cup {SBBUSYERROR_OFFSET}]
  ELSE IF Field(d.sbcs, SBACCESS_OFFSET, 3) # IntToBits(SBACCESS_32, 3)
  THEN [d EXCEPT !.sbcs = @ \cup Shl64(IntToBits(SBERR_BAD_SIZE, 3), SBERROR_OFFSET)]
  ELSE IF d.fault = 1 THEN SbFail(d)
  ELSE SbAfterAccess([d EXCEPT !.sbdata = SbMemRead(d.mem, d.sbaddr)])

\* A bus write of sbdata at sbaddress
SbStartWrite(d) ==
  IF SbBlocked(d) THEN d
  ELSE IF d.busy > 0 THEN [d EXCEPT !.sbcs = @ \cup {SBBUSYERROR_OFFSET}]
  ELSE IF Field(d.sbcs, SBACCESS_OFFSET, 3) # IntToBits(SBACCESS_32, 3)
  THEN [d EXCEPT !.sbcs = @ \cup Shl64(IntToBits(SBERR_BAD_SIZE, 3), SBERROR_OFFSET)]
  ELSE IF d.fault = 1 THEN SbFail(d)
  ELSE SbAfterAccess([d EXCEPT !.mem = SbMemWrite(d.mem, d.sbaddr, d.sbdata)])

\* A DMI write to the debug module.  sbcs takes the control bits and
\* clears the error bits written as 1.
DmWrite(d, a, v) ==
  CASE a = SBCS_DMI_ADDR ->
         [d EXCEPT !.sbcs =
            (v \cap (SbcsAccessBits \cup {SBREADONADDR_OFFSET, SBAUTOINCREMENT_OFFSET,
                                          SBREADONDATA_OFFSET}))
            \cup ((d.sbcs \cap (SbcsErrorBits \cup {SBBUSYERROR_OFFSET})) \ v)]
    [] a = SBADDRESS0_DMI_ADDR ->
         LET d1 == [d EXCEPT !.sbaddr = v]
         IN IF SBREADONADDR_OFFSET \in d.sbcs THEN SbStartRead(d1) ELSE d1
    [] a = SBDATA0_DMI_ADDR -> SbStartWrite([d EXCEPT !.sbdata = v])
    [] OTHER -> d

\* A DMI read of the debug module: the device after it and the value.
\* Each read of sbcs is one more poll of the access under way.
DmRead(d, a) ==
  CASE a = SBCS_DMI_ADDR ->
         [d |-> [d EXCEPT !.busy = IF @ > 0 THEN @ - 1 ELSE 0],
          val |-> d.sbcs \cup {29} \cup (IF d.busy > 0 THEN {SBBUSY_OFFSET} ELSE {})]
    [] a = SBADDRESS0_DMI_ADDR -> [d |-> d, val |-> d.sbaddr]
    [] a = SBDATA0_DMI_ADDR ->
         [d |-> IF SBREADONDATA_OFFSET \in d.sbcs THEN SbStartRead(d) ELSE d,
          val |-> d.sbdata]
    [] OTHER -> [d |-> d, val |-> {}]

(***************************************************************************)
(* Dmi: the registers sbcs, sbaddress[0] and sbdata[0] as the host caches  *)
(* them, on a state s = [host, dm]; the DTM carries each dmiWrite and      *)
(* dmiRead to the debug module unchanged.                                  *)
(***************************************************************************)
\* Sbcs::sbreadonaddr (flag)
sbreadonaddr(reg, flag) ==
  IF flag THEN reg \cup {SBREADONADDR_OFFSET} ELSE reg \ {SBREADONADDR_OFFSET}

\* Sbcs::sbaccess (val)
sbaccess(reg, val) ==
  (reg \ SbcsAccessBits) \cup (Shl64(IntToBits(val, 8), SBACCESS_OFFSET) \cap SbcsAccessBits)

\* Sbcs::sbautoincrement (flag)
sbautoincrement(reg, flag) ==
  IF flag THEN reg \cup {SBAUTOINCREMENT_OFFSET} ELSE reg \ {SBAUTOINCREMENT_OFFSET}

\* Sbcs::sbreadondata (flag)
sbreadondata(reg, flag) ==
  IF flag THEN reg \cup {SBREADONDATA_OFFSET} ELSE reg \ {SBREADONDATA_OFFSET}

\* Sbcs::sberrorClear
sberrorClear(reg) == reg \cup SbcsErrorBits

\* Sbcs::sberror
sberror(reg) == BitsToInt(Field(reg, SBERROR_OFFSET, 3))

\* Sbcs::sbbusy
sbbusy(reg) == SBBUSY_OFFSET \in reg

\* mSbcs->reset (); sbreadonaddr; sbaccess (SBACCESS_32); sbautoincrement;
\* sbreadondata; sberrorClear; write
SbcsSetup(s, roa, ainc, rod) ==
  LET reg == sberrorClear(sbreadondata(sbautoincrement(
               sbaccess(sbreadonaddr(SbcsResetValue, roa), SBACCESS_32), ainc), rod))
  IN [s EXCEPT !.host.mSbcsReg = reg, !.dm = DmWrite(s.dm, SBCS_DMI_ADDR, reg)]

\* mSbaddress->reset (0); sbaddress (0, a); write (0)
SbaddressSet(s, a) ==
  [s EXCEPT !.host.mSbaddressReg = a, !.dm = DmWrite(s.dm, SBADDRESS0_DMI_ADDR, a)]

\* do mSbcs->read (); while (mSbcs->sbbusy ());
RECURSIVE SbcsPoll(_)
SbcsPoll(s) ==
  LET r == DmRead(s.dm, SBCS_DMI_ADDR)
      s1 == [s EXCEPT !.host.mSbcsReg = r.val, !.dm = r.d]
  IN IF sbbusy(r.val) THEN SbcsPoll(s1) ELSE s1

\* mSbdata->read (0); w = mSbdata->sbdata (0)
SbdataGet(s) ==
  LET r == DmRead(s.dm, SBDATA0_DMI_ADDR)
  IN [s |-> [s EXCEPT !.host.mSbdataReg = r.val, !.dm = r.d], w |-> r.val]

\* mSbdata->sbdata (0, w); write (0)
SbdataPut(s, w) ==
  [s EXCEPT !.host.mSbdataReg = w, !.dm = DmWrite(s.dm, SBDATA0_DMI_ADDR, w)]

(***************************************************************************)
(* Dmi::readMem and Dmi::writeMem.  addr is the pair [w, o] (word index,   *)
(* byte offset) of an address below 2^32, nBytes a small size_t (64 bits). *)
(* A result carries overrun = TRUE when a loop of the code was left        *)
(* running beyond the end of the buffer by more than OverrunSlack bytes.   *)
(***************************************************************************)
\* How far past the buffer a runaway loop is followed
OverrunSlack == 4

Min(a, b) == IF a < b THEN a ELSE b

\* uint32_t endAddr = (addr + nBytes + 3) & 0xfffffffc
MemEndAddr(addr, nBytes) == (addr.w + ((addr.o + nBytes + 3) \div 4)) % AddrWords

\* addr + nBytes, in 64 bits: not reduced modulo 2^32
MemEndByte(addr, nBytes) ==
  [w |-> addr.w + ((addr.o + nBytes) \div 4), o |-> (addr.o + nBytes) % 4]

\* size_t nWords = (endAddr - startAddr) / 4, the difference in uint32_t
MemWordCount(addr, nBytes) == (MemEndAddr(addr, nBytes) - addr.w) % AddrWords

\* bool endAligned = endAddr == (addr + nBytes), compared in 64 bits
MemEndAligned(addr, nBytes) ==
  LET e == MemEndByte(addr, nBytes)
  IN e.o = 0 /\ e.w = MemEndAddr(addr, nBytes)

\* offset = endAddr - (addr + nBytes) and the bound 4 - offset of the last
\* loop, both size_t.  When endAddr has wrapped to below addr + nBytes the
\* offset is 2^64 - 2^32 or more and the bound 2^32 + 4 or more: runaway.
MemFinalCount(addr, nBytes) ==
  LET e == MemEndByte(addr, nBytes)
      dw == MemEndAddr(addr, nBytes) - e.w
  IN IF dw \in {0, 1} /\ 4 * dw - e.o >= 0
     THEN [runaway |-> FALSE, count |-> 4 - (4 * dw - e.o)]
     ELSE [runaway |-> TRUE, count |-> 4]

\* The bulk loop of readMem: for (; startAddr < (endAddr - 4); startAddr += 4)
RECURSIVE readBulk(_, _, _, _, _)
readBulk(s, startAddr, endAddr, buf, nBytes) ==
  IF startAddr < (endAddr - 1) % AddrWords
  THEN IF Len(buf) > nBytes + OverrunSlack
       THEN [s |-> s, buf |-> buf, err |-> SBERR_NONE, overrun |-> TRUE]
       ELSE LET s1 == SbcsPoll(s)
                err == sberror(s1.host.mSbcsReg)
            IN IF err # SBERR_NONE
               THEN [s |-> s1, buf |-> buf, err |-> err, overrun |-> FALSE]
               ELSE LET g == SbdataGet(s1)
                    IN readBulk(g.s, (startAddr + 1) % AddrWords, endAddr,
                                buf \o g.w, nBytes)
  ELSE [s |-> s, buf |-> buf, err |-> SBERR_NONE, overrun |-> FALSE]

\* The final word of readMem, after the bulk loop b
readFinal(b, addr, nBytes) ==
  IF b.err # SBERR_NONE \/ b.overrun THEN b
  ELSE LET s1 == SbcsPoll(b.s)
           err == sberror(s1.host.mSbcsReg)
       IN IF err # SBERR_NONE THEN [b EXCEPT !.s = s1, !.err = err]
          ELSE LET g == SbdataGet(s1)
                   f == MemFinalCount(addr, nBytes)
               IN [s |-> g.s, buf |-> b.buf \o SubSeq(g.w, 1, f.count),
                   err |-> SBERR_NONE, overrun |-> f.runaway]

\* Dmi::readMem
readMem(s0, addr, nBytes) ==
  LET startAddr == addr.w
      endAddr == MemEndAddr(addr, nBytes)
      nWords == MemWordCount(addr, nBytes)
      s1 == SbcsSetup(s0, TRUE, nWords > 1, TRUE)
      s2 == SbcsPoll(SbaddressSet(s1, startAddr))
      err == sberror(s2.host.mSbcsReg)
  IN IF err # SBERR_NONE
     THEN [s |-> s2, buf |-> <<>>, err |-> err, overrun |-> FALSE]
     ELSE LET g == SbdataGet(s2)
              offset == addr.o
              buf1 == SubSeq(g.w, offset + 1, Min(offset + nBytes, 4))
              startAddr1 == (startAddr + 1) % AddrWords
          IN IF startAddr1 = endAddr
             THEN [s |-> g.s, buf |-> buf1, err |-> SBERR_NONE, overrun |-> FALSE]
             ELSE readFinal(readBulk(g.s, startAddr1, endAddr, buf1, nBytes),
                            addr, nBytes)

\* buf[i] of the write buffer; beyond its end, whatever lies there
BufAt(buf, i, junk) == IF i < Len(buf) THEN buf[i + 1] ELSE junk[1]

\* for (i = lo; i < hi; i++) { w &= ~(0xff << (8 * i)); w |= buf[bufIndex++] << (8 * i); }
Overlay(w, lo, hi, buf, bufIndex, junk) ==
  [k \in 1..4 |-> IF lo <= k - 1 /\ k - 1 < hi
                  THEN BufAt(buf, bufIndex + (k - 1 - lo), junk) ELSE w[k]]

\* writeMem up to the first word to write: with a misaligned start the word
\* is read, otherwise w is left uninitialised (junk)
writeHead(s0, addr, nBytes, junk) ==
  LET startAddr == addr.w
      nWords == MemWordCount(addr, nBytes)
      startAligned == addr.o = 0
      s1 == SbaddressSet(SbcsSetup(s0, ~startAligned, nWords > 1, FALSE), startAddr)
  IN IF startAligned THEN [s |-> s1, w |-> junk, err |-> SBERR_NONE]
     ELSE LET s2 == SbcsPoll(s1)
              err == sberror(s2.host.mSbcsReg)
          IN IF err # SBERR_NONE THEN [s |-> s2, w |-> junk, err |-> err]
             ELSE LET g == SbdataGet(s2)
                  IN [s |-> SbaddressSet(SbcsSetup(g.s, FALSE, nWords > 1, FALSE),
                                         startAddr),
                      w |-> g.w, err |-> SBERR_NONE]

\* mSbdata->sbdata (0, w); write (0); poll; err = mSbcs->sberror ()
writeWord(s, w) ==
  LET s1 == SbcsPoll(SbdataPut(s, w))
  IN [s |-> s1, err |-> sberror(s1.host.mSbcsReg)]

\* The bulk loop of writeMem
RECURSIVE writeBulk(_, _, _, _, _, _, _)
writeBulk(s, startAddr, endAddr, buf, bufIndex, w, junk) ==
  IF startAddr < (endAddr - 1) % AddrWords
  THEN IF bufIndex > Len(buf) + OverrunSlack
       THEN [s |-> s, startAddr |-> startAddr, bufIndex |-> bufIndex, w |-> w,
             err |-> SBERR_NONE, overrun |-> TRUE]
       ELSE LET w1 == Overlay(w, 0, 4, buf, bufIndex, junk)
                r == writeWord(s, w1)
            IN IF r.err # SBERR_NONE
               THEN [s |-> r.s, startAddr |-> startAddr, bufIndex |-> bufIndex + 4,
                     w |-> w1, err |-> r.err, overrun |-> FALSE]
               ELSE writeBulk(r.s, (startAddr + 1) % AddrWords, endAddr, buf,
                              bufIndex + 4, w1, junk)
  ELSE [s |-> s, startAddr |-> startAddr, bufIndex |-> bufIndex, w |-> w,
        err |-> SBERR_NONE, overrun |-> FALSE]

\* The final word of writeMem, after the bulk loop b: with a misaligned end
\* the word is read first
writeFinal(b, addr, nBytes, buf, junk) ==
  IF b.err # SBERR_NONE \/ b.overrun
  THEN [s |-> b.s, err |-> b.err, overrun |-> b.overrun]
  ELSE LET nWords == MemWordCount(addr, nBytes)
           f == MemFinalCount(addr, nBytes)
           s2 == IF MemEndAligned(addr, nBytes) THEN b.s
                 ELSE SbcsPoll(SbaddressSet(SbcsSetup(b.s, TRUE, FALSE, FALSE),
                                            b.startAddr))
           err == sberror(s2.host.mSbcsReg)
       IN IF ~MemEndAligned(addr, nBytes) /\ err # SBERR_NONE
          THEN [s |-> s2, err |-> err, overrun |-> FALSE]
          ELSE LET g == IF MemEndAligned(addr, nBytes) THEN [s |-> s2, w |-> b.w]
                        ELSE SbdataGet(s2)
                   s3 == IF MemEndAligned(addr, nBytes) THEN g.s
                         ELSE SbcsSetup(g.s, FALSE, nWords > 1, FALSE)
                   w1 == Overlay(g.w, 0, f.count, buf, b.bufIndex, junk)
                   r == writeWord(s3, w1)
               IN [s |-> r.s, err |-> r.err, overrun |-> f.runaway]

\* Dmi::writeMem
writeMem(s0, addr, nBytes, buf, junk) ==
  LET h == writeHead(s0, addr, nBytes, junk)
  IN IF h.err # SBERR_NONE THEN [s |-> h.s, err |-> h.err, overrun |-> FALSE]
     ELSE LET offset == addr.o
              top == Min(offset + nBytes, 4)
              w1 == Overlay(h.w, offset, top, buf, 0, junk)
              bufIndex == IF top > offset THEN top - offset ELSE 0
              r == writeWord(h.s, w1)
              startAddr1 == (addr.w + 1) % AddrWords
              endAddr == MemEndAddr(addr, nBytes)
          IN IF r.err # SBERR_NONE \/ startAddr1 = endAddr
             THEN [s |-> r.s, err |-> r.err, overrun |-> FALSE]
             ELSE writeFinal(writeBulk(r.s, startAddr1, endAddr, buf, bufIndex, w1, junk),
                             addr, nBytes, buf, junk)

(***************************************************************************)
(* The abstract command unit of the debug module, as the device implements *)
(* it (RISC-V Debug Spec 0.13.2, dmcontrol / abstractcs / command /        *)
(* data0).  The RTL is not part of the repository.  The record d holds the *)
(* DMI accesses the command under way still shows busy, the latency and    *)
(* the outcome of the next command, cmderr, data0, the command, dmcontrol  *)
(* and the registers of the hart.                                          *)
(***************************************************************************)
DATA0_DMI_ADDR == 4
DMSTATUS_DMI_ADDR == 17
HALTSUM0_DMI_ADDR == 64
HALTREQ_OFFSET == 31
RESUMEREQ_OFFSET == 30
DMCONTROL_DMI_ADDR == 16
ABSTRACTCS_DMI_ADDR == 22
COMMAND_DMI_ADDR == 23
HARTSELLO_OFFSET == 16
HARTSELHI_OFFSET == 6
HARTSELLO_SIZE == 10
NDMRESET_OFFSET == 1
DMACTIVE_OFFSET == 0
BUSY_OFFSET == 12
CMDERR_OFFSET == 8
CMDERR_SIZE == 3
CMDERR_NONE == 0
CMDERR_BUSY == 1
CMDERR_UNSUPPORTED == 2
CMDERR_EXCEPT == 3
CMDERR_HALT_RESUME == 4
CMDERR_BUS == 5
CMDERR_OTHER == 7
CMDERR_UNKNOWN == -1
CMDTYPE_OFFSET == 24
AARSIZE_OFFSET == 20
TRANSFER_OFFSET == 17
WRITE_OFFSET == 16
REGNO_SIZE == 16
ACCESS_REG == 0
ACCESS32 == 2
\* Dmcontrol::HARTSELLO_MASK, 0x03ff0000, and HARTSELHI_MASK, 0x0000ffc0
HartselloBits == 16..25
HartselhiBits == 6..15
\* Abstractcs::CMDERR_MASK, 0x00000700
CmderrBits == {8, 9, 10}

\* The CSRs of the hart: mstatus and dcsr
MSTATUS == 768
DCSR == 1968
HartRegsInit == (MSTATUS :> {3, 11, 12}) @@ (DCSR :> {0, 1, 30})

\* abstractcs.datacount = 2 and abstractcs.progbufsize = 8
AbstractcsFixed == {1, 27}

\* dcsr: step, ebreakm/ebreaks/ebreaku and cause, and the causes of a halt
DcsrStep == {2}
DcsrEbreaks == {12, 13, 15}
DcsrCause == {6, 7, 8}
CauseEbreak == {6}
CauseTrigger == {7}
CauseHaltreq == {6, 7}
CauseStep == {8}

\* dmstatus: anyhalted and allhalted; version 2 and authenticated
DmstatusHalted == {8, 9}
DmstatusRunning == {10, 11}
DmstatusFixed == {1, 7}

\* dmcontrol: haltreq and resumereq read as 0; one bit of hartsel is
\* implemented
DmcontrolReadable == {DMACTIVE_OFFSET, NDMRESET_OFFSET, HARTSELLO_OFFSET}

AcDevInit ==
  [busy |-> 0, lat |-> 0, fail |-> CMDERR_NONE, cmderr |-> CMDERR_NONE, data0 |-> {},
   cmd |-> {}, dmcontrol |-> {}, regs |-> HartRegsInit, halted |-> TRUE,
   rlat |-> 0, resuming |-> 0, left |-> TRUE, errs |-> {CMDERR_NONE}]

\* The hart enters debug mode: dcsr.cause tells why
HartHalt(d, cause) ==
  [d EXCEPT !.halted = TRUE, !.regs[DCSR] = (@ \ DcsrCause) \cup cause]

\* dmcontrol written with dmactive set: haltreq halts the running hart,
\* resumereq without haltreq resumes the halted one, at once or rlat DMI
\* accesses later; left tells whether the hart has left the halted state
\* since the last resume request
HartCtl(d, v) ==
  IF HALTREQ_OFFSET \in v
  THEN IF d.halted THEN d ELSE HartHalt(d, CauseHaltreq)
  ELSE IF RESUMEREQ_OFFSET \in v /\ d.halted
  THEN IF d.rlat = 0 THEN [d EXCEPT !.halted = FALSE, !.left = TRUE]
       ELSE [d EXCEPT !.resuming = d.rlat, !.left = FALSE]
  ELSE d

\* One DMI access goes by while a resume request is pending
HartTick(d) ==
  IF d.resuming = 0 THEN d
  ELSE IF d.resuming = 1 THEN [d EXCEPT !.resuming = 0, !.halted = FALSE, !.left = TRUE]
  ELSE [d EXCEPT !.resuming = @ - 1]

\* What the running hart does before the next DMI access: it goes on
\* running, completes the instruction of a single step, executes an ebreak
\* (which enters debug mode when dcsr.ebreakm is set) or hits a trigger
HartEvents == {"run", "ebreak", "trigger"}

HartRun(d, ev) ==
  IF d.halted \/ ev = "run" THEN d
  ELSE IF DcsrStep \subseteq d.regs[DCSR] THEN HartHalt(d, CauseStep)
  ELSE IF ev = "trigger" THEN HartHalt(d, CauseTrigger)
  ELSE IF 15 \in d.regs[DCSR] THEN HartHalt(d, CauseEbreak)
  ELSE d

\* The command under way completes: with the error it meets, or with the
\* transfer between data0 and the register regno
AcFinish(d) ==
  Let(BitsToInt(Field(d.cmd, 0, REGNO_SIZE)), LAMBDA regno :
    IF d.fail # CMDERR_NONE THEN [d EXCEPT !.cmderr = d.fail, !.fail = CMDERR_NONE]
    ELSE IF ~d.halted THEN [d EXCEPT !.cmderr = CMDERR_HALT_RESUME]
    ELSE IF regno \notin DOMAIN d.regs THEN [d EXCEPT !.cmderr = CMDERR_EXCEPT]
    ELSE IF TRANSFER_OFFSET \notin d.cmd THEN d
    ELSE IF WRITE_OFFSET \in d.cmd THEN [d EXCEPT !.regs[regno] = d.data0]
    ELSE [d EXCEPT !.data0 = d.regs[regno]])

\* One DMI access goes by while a command is under way
AcTick(d) ==
  IF d.busy = 0 THEN d
  ELSE IF d.busy = 1 THEN AcFinish([d EXCEPT !.busy = 0])
  ELSE [d EXCEPT !.busy = @ - 1]

\* An access the unit refuses while busy: cmderr becomes BUSY unless set
AcRefuse(d) == AcTick(IF d.cmderr = CMDERR_NONE THEN [d EXCEPT !.cmderr = CMDERR_BUSY] ELSE d)

\* A DMI write to the debug module.  With dmactive clear the module holds
\* its reset state and takes writes of dmcontrol only.
AcWrite(d, a, v) ==
  IF a = DMCONTROL_DMI_ADDR
  THEN IF DMACTIVE_OFFSET \in v
       THEN HartCtl(AcTick([d EXCEPT !.dmcontrol = v]), v)
       ELSE [d EXCEPT !.dmcontrol = v, !.busy = 0, !.cmderr = CMDERR_NONE,
                      !.data0 = {}, !.cmd = {}]
  ELSE IF DMACTIVE_OFFSET \notin d.dmcontrol THEN d
  ELSE IF a \in {COMMAND_DMI_ADDR, DATA0_DMI_ADDR, ABSTRACTCS_DMI_ADDR} /\ d.busy > 0
  THEN AcRefuse(d)
  ELSE IF a = COMMAND_DMI_ADDR
  THEN IF d.cmderr # CMDERR_NONE THEN d
       ELSE IF d.lat = 0 THEN AcFinish([d EXCEPT !.cmd = v])
       ELSE [d EXCEPT !.cmd = v, !.busy = d.lat]
  ELSE IF a = DATA0_DMI_ADDR THEN [d EXCEPT !.data0 = v]
  ELSE IF a = ABSTRACTCS_DMI_ADDR
  THEN [d EXCEPT !.cmderr =
          BitsToInt(IntToBits(d.cmderr, CMDERR_SIZE) \ Field(v, CMDERR_OFFSET, CMDERR_SIZE))]
  ELSE d

\* A DMI read of the debug module: the device after it and the value
AcRead(d, a) ==
  IF a = DMCONTROL_DMI_ADDR
  THEN [d |-> AcTick(d), val |-> d.dmcontrol \cap DmcontrolReadable]
  ELSE IF a = DMSTATUS_DMI_ADDR
  THEN [d |-> AcTick(d),
        val |-> DmstatusFixed
                  \cup (IF d.halted THEN DmstatusHalted ELSE DmstatusRunning)]
  ELSE IF a = HALTSUM0_DMI_ADDR
  THEN [d |-> AcTick(d), val |-> IF d.halted THEN {0} ELSE {}]
  ELSE IF a = ABSTRACTCS_DMI_ADDR
  THEN [d |-> AcTick(d),
        val |-> AbstractcsFixed \cup (IF d.busy > 0 THEN {BUSY_OFFSET} ELSE {})
                  \cup Shl64(IntToBits(d.cmderr, CMDERR_SIZE), CMDERR_OFFSET)]
  ELSE IF a = DATA0_DMI_ADDR
  THEN [d |-> IF d.busy > 0 THEN AcRefuse(d) ELSE d, val |-> d.data0]
  ELSE [d |-> AcTick(d), val |-> {}]

(***************************************************************************)
(* Dmi: dmcontrol, abstractcs, command and data[0] as the host caches      *)
(* them, on a state s = [host, dm, log].  The log lists the DMI accesses   *)
(* in order; the DTM carries each of them to the debug module unchanged.   *)
(***************************************************************************)
\* mDtm->dmiWrite (address, wdata)
DmiPut(s, a, v) ==
  [s EXCEPT !.dm = Let(HartTick(s.dm), LAMBDA d : AcWrite(d, a, v)),
            !.log = Append(@, [wr |-> TRUE, addr |-> a, val |-> v])]

\* mDtm->dmiRead (address): the state after it and the value read
DmiGet(s, a) ==
  Let(Let(HartTick(s.dm), LAMBDA d : AcRead(d, a)), LAMBDA r :
    [s |-> [s EXCEPT !.dm = r.d,
                     !.log = Append(@, [wr |-> FALSE, addr |-> a, val |-> r.val])],
     val |-> r.val])

\* Dmcontrol::hartsel (hartselVal), on the value of the register; the masks
\* keep the low 20 bits of hartselVal
hartsel(reg, hartselVal) ==
  Let(IntToBits(hartselVal, 2 * HARTSELLO_SIZE), LAMBDA h :
    (reg \ (HartselloBits \cup HartselhiBits))
      \cup (Shl64(Shr64(h, HARTSELLO_SIZE), HARTSELHI_OFFSET) \cap HartselhiBits)
      \cup (Shl64(h, HARTSELLO_OFFSET) \cap HartselloBits))

\* Dmcontrol::reset: RESET_VALUE with hartsel (mCurrentHartsel)
DmcontrolReset(host) == hartsel({}, host.mCurrentHartsel)

\* Dmi::selectHart
selectHart(s, h) ==
  Let(hartsel({}, h) \cup {DMACTIVE_OFFSET}, LAMBDA reg :
    DmiPut([s EXCEPT !.host.mCurrentHartsel = h, !.host.mDmcontrolReg = reg],
           DMCONTROL_DMI_ADDR, reg))

\* mDmcontrol->reset (); ndmreset (flag) or dmactive (flag); write ()
DmcontrolToggle(s, bit, flag) ==
  Let(IF flag THEN DmcontrolReset(s.host) \cup {bit} ELSE DmcontrolReset(s.host) \ {bit},
      LAMBDA reg : DmiPut([s EXCEPT !.host.mDmcontrolReg = reg], DMCONTROL_DMI_ADDR, reg))

\* A recovery that toggles dmactive before ndmreset
cmderrBusySwapped(s) ==
  DmcontrolToggle(DmcontrolToggle(DmcontrolToggle(DmcontrolToggle(
    s, DMACTIVE_OFFSET, FALSE), DMACTIVE_OFFSET, TRUE),
    NDMRESET_OFFSET, TRUE), NDMRESET_OFFSET, FALSE)

\* case Abstractcs::CMDERR_BUSY of readCsr and writeCsr: toggle ndmreset
\* over { true, false }, then dmactive over { false, true }
cmderrBusy(s) ==
  DmcontrolToggle(DmcontrolToggle(DmcontrolToggle(DmcontrolToggle(
    s, NDMRESET_OFFSET, TRUE), NDMRESET_OFFSET, FALSE),
    DMACTIVE_OFFSET, FALSE), DMACTIVE_OFFSET, TRUE)

\* A default case that writes abstractcs back as it was read
cmderrOtherAsRead(s) ==
  DmiPut(s, ABSTRACTCS_DMI_ADDR, s.host.mAbstractcsReg)

\* default case of readCsr and writeCsr: mAbstractcs->cmderrClear (); write ()
cmderrOther(s) ==
  Let(s.host.mAbstractcsReg \cup CmderrBits, LAMBDA reg :
    DmiPut([s EXCEPT !.host.mAbstractcsReg = reg], ABSTRACTCS_DMI_ADDR, reg))

\* Abstractcs::cmderr: the field, or CMDERR_UNKNOWN for the value 6
cmderr(reg) ==
  Let(BitsToInt(Field(reg, CMDERR_OFFSET, CMDERR_SIZE)), LAMBDA e :
    IF e = 6 THEN CMDERR_UNKNOWN ELSE e)

\* mCommand->reset (); cmdtype (ACCESS_REG); aarsize (ACCESS32);
\* aatransfer (true); aawrite (flag); aaregno (addr); write ()
CommandIssue(s, flag, addr) ==
  Let(Shl64(IntToBits(ACCESS_REG, 8), CMDTYPE_OFFSET)
        \cup Shl64(IntToBits(ACCESS32, 3), AARSIZE_OFFSET)
        \cup {TRANSFER_OFFSET} \cup (IF flag THEN {WRITE_OFFSET} ELSE {})
        \cup IntToBits(addr, REGNO_SIZE),
      LAMBDA reg : DmiPut([s EXCEPT !.host.mCommandReg = reg], COMMAND_DMI_ADDR, reg))

\* mAbstractcs->read ()
AbstractcsRead(s) ==
  Let(DmiGet(s, ABSTRACTCS_DMI_ADDR), LAMBDA r :
    [r.s EXCEPT !.host.mAbstractcsReg = r.val])

\* mData->read (0)
DataRead(s) ==
  Let(DmiGet(s, DATA0_DMI_ADDR), LAMBDA r : [r.s EXCEPT !.host.mDataReg = r.val])

\* mData->reset (0); data (0, val); write (0)
DataWrite(s, val) == DmiPut([s EXCEPT !.host.mDataReg = val], DATA0_DMI_ADDR, val)

\* The switch (err) of readCsr and writeCsr on the state after the read of
\* abstractcs; set tells whether res has been assigned
CsrOutcome(s, err, isRead) ==
  IF err = CMDERR_NONE
  THEN IF isRead
       THEN Let(DataRead(s), LAMBDA s2 :
              [s |-> s2, err |-> err, set |-> TRUE, res |-> s2.host.mDataReg])
       ELSE [s |-> s, err |-> err, set |-> FALSE, res |-> {}]
  ELSE IF err = CMDERR_BUSY
  THEN [s |-> cmderrBusy(s), err |-> err, set |-> FALSE, res |-> {}]
  ELSE [s |-> cmderrOther(s), err |-> err, set |-> FALSE, res |-> {}]

\* Dmi::readCsr (addr, res)
readCsr(s0, addr) ==
  Let(AbstractcsRead(CommandIssue(s0, FALSE, addr)), LAMBDA s :
    CsrOutcome(s, cmderr(s.host.mAbstractcsReg), TRUE))

\* Dmi::writeCsr (addr, val)
writeCsr(s0, addr, val) ==
  Let(AbstractcsRead(CommandIssue(DataWrite(s0, val), TRUE, addr)), LAMBDA s :
    CsrOutcome(s, cmderr(s.host.mAbstractcsReg), FALSE))

(***************************************************************************)
(* Dmi and Cv32e40: hart selection, the debugger's register numbers and    *)
(* run control, on a state s = [host, dm, log]                             *)
(***************************************************************************)
GPR_BASE == 4096
FPR_BASE == 4128
DPC == 1969
REG_ZERO_GDBNUM == 0
REG_PC_GDBNUM == 32
REG_FT0_GDBNUM == 33
REG_CSR0_GDBNUM == 65
REG_CSR_LAST_GDBNUM == REG_CSR0_GDBNUM + 4095

\* Dmcontrol::hartselMax: all twenty bits of hartsel
hartselMax == Pow2(2 * HARTSELLO_SIZE) - 1

\* Dmcontrol::hartsel () const, of the value of the register
hartselOf(reg) ==
  BitsToInt(Shr64(reg \cap HartselhiBits, HARTSELHI_OFFSET)) * Pow2(HARTSELLO_SIZE)
    + BitsToInt(Shr64(reg \cap HartselloBits, HARTSELLO_OFFSET))

\* mDmcontrol->read ()
DmcontrolRead(s) ==
  Let(DmiGet(s, DMCONTROL_DMI_ADDR), LAMBDA r :
    [r.s EXCEPT !.host.mDmcontrolReg = r.val])

\* Dmi::haltHart
haltHart(s, h) ==
  Let(hartsel({}, h) \cup {HALTREQ_OFFSET, DMACTIVE_OFFSET}, LAMBDA reg :
    DmiPut([s EXCEPT !.host.mCurrentHartsel = h, !.host.mDmcontrolReg = reg],
           DMCONTROL_DMI_ADDR, reg))

\* Dmi::hartsellen: selectHart (hartselMax ()); mDmcontrol->reset ();
\* return mDmcontrol->hartsel ()
hartsellen(s) ==
  Let(selectHart(s, hartselMax), LAMBDA s1 :
  Let(DmcontrolReset(s1.host), LAMBDA reg :
    [s |-> [s1 EXCEPT !.host.mDmcontrolReg = reg], ret |-> hartselOf(reg)]))

\* The register number that Cv32e40::readRegister and writeRegister make
\* Dmi put into the command for the debugger's register reg, as readGpr,
\* readFpr and readCsr compute it in a uint16_t; -1 when there is none
RegisterCsr(reg) ==
  IF reg >= REG_ZERO_GDBNUM /\ reg < REG_PC_GDBNUM THEN (GPR_BASE + reg) % Pow2(REGNO_SIZE)
  ELSE IF reg = REG_PC_GDBNUM THEN DPC
  ELSE IF reg >= REG_FT0_GDBNUM /\ reg < REG_CSR0_GDBNUM
  THEN (FPR_BASE + reg) % Pow2(REGNO_SIZE)
  ELSE IF reg >= REG_CSR0_GDBNUM /\ reg <= REG_CSR_LAST_GDBNUM THEN reg - REG_CSR0_GDBNUM
  ELSE -1

\* Cv32e40::readRegister: [s, retval, value]; junk is what readvalue holds
\* when the read did not assign it
readRegister(s, reg, junk) ==
  IF RegisterCsr(reg) = -1 THEN [s |-> s, retval |-> 0, value |-> {}]
  ELSE Let(readCsr(s, RegisterCsr(reg)), LAMBDA r :
         [s |-> r.s, retval |-> 4, value |-> IF r.set THEN r.res ELSE junk])

\* Cv32e40::writeRegister: [s, retval]
writeRegister(s, reg, value) ==
  IF RegisterCsr(reg) = -1 THEN [s |-> s, retval |-> 0]
  ELSE [s |-> writeCsr(s, RegisterCsr(reg), value).s, retval |-> 4]

\* mDmi->readCsr (Dmi::Csr::DCSR, val); val = (val & ~clear) | set;
\* mDmi->writeCsr (Dmi::Csr::DCSR, val): [s, ok, val], val as it was read
DcsrUpdate(s, clear, set, junk) ==
  Let(readCsr(s, DCSR), LAMBDA r :
  Let(IF r.set THEN r.res ELSE junk, LAMBDA val :
  Let(writeCsr(r.s, DCSR, (val \ clear) \cup set), LAMBDA w :
    [s |-> w.s, ok |-> r.err = CMDERR_NONE /\ w.err = CMDERR_NONE, val |-> val])))

\* A resume that leaves haltreq as the cached dmcontrol has it
resumeKeepHaltreq(s, action, junk) ==
  Let(DcsrUpdate(s, {}, IF action = "STEP" THEN DcsrStep ELSE DcsrEbreaks, junk),
      LAMBDA u :
  Let(u.s.host.mDmcontrolReg \cup {RESUMEREQ_OFFSET}, LAMBDA reg :
    [s |-> DmiPut([u.s EXCEPT !.host.mDmcontrolReg = reg], DMCONTROL_DMI_ADDR, reg),
     ret |-> u.ok]))

\* Cv32e40::resume with mRunAction STEP or CONTINUE: [s, ret]
resume(s, action, junk) ==
  Let(DcsrUpdate([s EXCEPT !.host.mDmcontrolReg = @ \ {HALTREQ_OFFSET}], {},
                 IF action = "STEP" THEN DcsrStep ELSE DcsrEbreaks, junk), LAMBDA u :
  Let(u.s.host.mDmcontrolReg \cup {RESUMEREQ_OFFSET}, LAMBDA reg :
    [s |-> DmiPut([u.s EXCEPT !.host.mDmcontrolReg = reg], DMCONTROL_DMI_ADDR, reg),
     ret |-> u.ok]))

\* One turn of the loops of stepInstr and stoppedAtEbreak:
\* mDmi->haltsum ()->read (0); haltsum (0)
haltsumRead(s) == DmiGet(s, HALTSUM0_DMI_ADDR)

\* A stepInstr that leaves dcsr as it is
stepInstrNoDcsr(s, junk) == [s |-> s, res |-> "INTERRUPTED"]

\* Cv32e40::stepInstr from the break of its loop: [s, res]
stepInstr(s, junk) ==
  [s |-> DcsrUpdate(s, DcsrStep, {}, junk).s, res |-> "INTERRUPTED"]

\* Cv32e40::stoppedAtEbreak from the break of its loop: [s, ret]
stoppedAtEbreak(s, junk) ==
  Let(readCsr(s, DCSR), LAMBDA r :
    [s |-> r.s, ret |-> ((IF r.set THEN r.res ELSE junk) \cap DcsrCause) = CauseEbreak])

\* A runToBreak that reports INTERRUPTED whatever stopped the hart
runToBreakAlways(s, junk) ==
  [s |-> DcsrUpdate(stoppedAtEbreak(s, junk).s, DcsrEbreaks, {}, junk).s,
   res |-> "INTERRUPTED"]

\* Cv32e40::runToBreak from the break of the loop of stoppedAtEbreak
runToBreak(s, junk) ==
  Let(stoppedAtEbreak(s, junk), LAMBDA e :
    [s |-> DcsrUpdate(e.s, DcsrEbreaks, {}, junk).s,
     res |-> IF e.ret THEN "INTERRUPTED" ELSE "FAILURE"])

(***************************************************************************)
(* The field schemas of the DMI registers (Dmi.h): for each field of each  *)
(* register class its entry in enum Masks (as the set of bits of the       *)
(* constant), in enum Offsets and in enum Sizes.                           *)
(***************************************************************************)
FieldTable == <<
  [reg |-> "Dmcontrol", name |-> "HALTREQ", mask |-> {31}, offset |-> 31, size |-> 1],
  [reg |-> "Dmcontrol", name |-> "RESUMEREQ", mask |-> {30}, offset |-> 30, size |-> 1],
  [reg |-> "Dmcontrol", name |-> "HARTRESET", mask |-> {29}, offset |-> 29, size |-> 1],
  [reg |-> "Dmcontrol", name |-> "ACKHAVERESET", mask |-> {28}, offset |-> 28, size |-> 1],
  [reg |-> "Dmcontrol", name |-> "HASEL", mask |-> {26}, offset |-> 26, size |-> 1],
  [reg |-> "Dmcontrol", name |-> "HARTSELLO", mask |-> 16..25, offset |-> 16, size |-> 10],
  [reg |-> "Dmcontrol", name |-> "HARTSELHI", mask |-> 6..15, offset |-> 6, size |-> 10],
  [reg |-> "Dmcontrol", name |-> "SETRESETHALTREQ", mask |-> {3}, offset |-> 3, size |-> 1],
  [reg |-> "Dmcontrol", name |-> "CLRRESETHALTREQ", mask |-> {2}, offset |-> 2, size |-> 1],
  [reg |-> "Dmcontrol", name |-> "NDMRESET", mask |-> {1}, offset |-> 1, size |-> 1],
  [reg |-> "Dmcontrol", name |-> "DMACTIVE", mask |-> {0}, offset |-> 0, size |-> 1],
  [reg |-> "Dmstatus", name |-> "IMPEBREAK", mask |-> {22}, offset |-> 22, size |-> 1],
  [reg |-> "Dmstatus", name |-> "ALLHAVERESET", mask |-> {19}, offset |-> 19, size |-> 1],
  [reg |-> "Dmstatus", name |-> "ANYHAVERESET", mask |-> {18}, offset |-> 18, size |-> 1],
  [reg |-> "Dmstatus", name |-> "ALLRESUMEACK", mask |-> {17}, offset |-> 17, size |-> 1],
  [reg |-> "Dmstatus", name |-> "ANYRESUMEACK", mask |-> {16}, offset |-> 16, size |-> 1],
  [reg |-> "Dmstatus", name |-> "ALLNONEXISTENT", mask |-> {15}, offset |-> 15, size |-> 1],
  [reg |-> "Dmstatus", name |-> "ANYNONEXISTENT", mask |-> {14}, offset |-> 14, size |-> 1],
  [reg |-> "Dmstatus", name |-> "ALLUNAVAIL", mask |-> {13}, offset |-> 13, size |-> 1],
  [reg |-> "Dmstatus", name |-> "ANYUNAVAIL", mask |-> {12}, offset |-> 12, size |-> 1],
  [reg |-> "Dmstatus", name |-> "ALLRUNNING", mask |-> {11}, offset |-> 11, size |-> 1],
  [reg |-> "Dmstatus", name |-> "ANYRUNNING", mask |-> {10}, offset |-> 10, size |-> 1],
  [reg |-> "Dmstatus", name |-> "ALLHALTED", mask |-> {9}, offset |-> 9, size |-> 1],
  [reg |-> "Dmstatus", name |-> "ANYHALTED", mask |-> {8}, offset |-> 8, size |-> 1],
  [reg |-> "Dmstatus", name |-> "AUTHENTICATED", mask |-> {7}, offset |-> 7, size |-> 1],
  [reg |-> "Dmstatus", name |-> "AUTHBUSY", mask |-> {6}, offset |-> 6, size |-> 1],
  [reg |-> "Dmstatus", name |-> "HASRESETHALTREQ", mask |-> {5}, offset |-> 5, size |-> 1],
  [reg |-> "Dmstatus", name |-> "CONFSTRPTRVALID", mask |-> {4}, offset |-> 4, size |-> 1],
  [reg |-> "Dmstatus", name |-> "VERSION", mask |-> 0..3, offset |-> 0, size |-> 4],
  [reg |-> "Hartinfo", name |-> "NSCRATCH", mask |-> 20..23, offset |-> 20, size |-> 4],
  [reg |-> "Hartinfo", name |-> "DATAACCESS", mask |-> {16}, offset |-> 16, size |-> 1],
  [reg |-> "Hartinfo", name |-> "DATASIZE", mask |-> 12..15, offset |-> 12, size |-> 4],
  [reg |-> "Hartinfo", name |-> "DATAADDR", mask |-> 0..11, offset |-> 0, size |-> 12],
  [reg |-> "Hawindowsel", name |-> "HAWINDOWSEL", mask |-> 0..14, offset |-> 0, size |-> 15],
  [reg |-> "Abstractcs", name |-> "PROGBUFSIZE", mask |-> 24..28, offset |-> 24, size |-> 5],
  [reg |-> "Abstractcs", name |-> "BUSY", mask |-> {12}, offset |-> 12, size |-> 1],
  [reg |-> "Abstractcs", name |-> "CMDERR", mask |-> 8..10, offset |-> 8, size |-> 3],
  [reg |-> "Abstractcs", name |-> "DATACOUNT", mask |-> 0..3, offset |-> 0, size |-> 4],
  [reg |-> "Command", name |-> "CMDTYPE", mask |-> 24..31, offset |-> 24, size |-> 8],
  [reg |-> "Command", name |-> "CONTROL", mask |-> 0..23, offset |-> 0, size |-> 24],
  [reg |-> "Command", name |-> "AAMVIRTUAL", mask |-> {23}, offset |-> 23, size |-> 1],
  [reg |-> "Command", name |-> "AARSIZE", mask |-> 20..22, offset |-> 20, size |-> 3],
  [reg |-> "Command", name |-> "AAMSIZE", mask |-> 20..22, offset |-> 20, size |-> 1],
  [reg |-> "Command", name |-> "AAPOSTINCREMENT", mask |-> {19}, offset |-> 19, size |-> 1],
  [reg |-> "Command", name |-> "POSTEXEC", mask |-> {18}, offset |-> 18, size |-> 1],
  [reg |-> "Command", name |-> "TRANSFER", mask |-> {17}, offset |-> 17, size |-> 1],
  [reg |-> "Command", name |-> "WRITE", mask |-> {16}, offset |-> 16, size |-> 1],
  [reg |-> "Command", name |-> "TARGET_SPECIFIC", mask |-> 14..15, offset |-> 14, size |-> 2],
  [reg |-> "Command", name |-> "REGNO", mask |-> 0..15, offset |-> 0, size |-> 16],
  [reg |-> "Abstractauto", name |-> "AUTOEXECPROGBUF", mask |-> 16..31, offset |-> 16, size |-> 16],
  [reg |-> "Abstractauto", name |-> "AUTOEXECDATA", mask |-> 0..11, offset |-> 0, size |-> 12],
  [reg |-> "Sbcs", name |-> "SBVERSION", mask |-> 29..31, offset |-> 29, size |-> 3],
  [reg |-> "Sbcs", name |-> "SBBUSYERROR", mask |-> {22}, offset |-> 22, size |-> 1],
  [reg |-> "Sbcs", name |-> "SBBUSY", mask |-> {21}, offset |-> 21, size |-> 1],
  [reg |-> "Sbcs", name |-> "SBREADONADDR", mask |-> {20}, offset |-> 20, size |-> 1],
  [reg |-> "Sbcs", name |-> "SBACCESS", mask |-> 17..19, offset |-> 17, size |-> 3],
  [reg |-> "Sbcs", name |-> "SBAUTOINCREMENT", mask |-> {16}, offset |-> 16, size |-> 1],
  [reg |-> "Sbcs", name |-> "SBREADONDATA", mask |-> {15}, offset |-> 15, size |-> 1],
  [reg |-> "Sbcs", name |-> "SBERROR", mask |-> 12..14, offset |-> 12, size |-> 3],
  [reg |-> "Sbcs", name |-> "SBASIZE", mask |-> 5..11, offset |-> 5, size |-> 7],
  [reg |-> "Sbcs", name |-> "SBACCESS128", mask |-> {4}, offset |-> 4, size |-> 1],
  [reg |-> "Sbcs", name |-> "SBACCESS64", mask |-> {3}, offset |-> 3, size |-> 1],
  [reg |-> "Sbcs", name |-> "SBACCESS32", mask |-> {2}, offset |-> 2, size |-> 1],
  [reg |-> "Sbcs", name |-> "SBACCESS16", mask |-> {1}, offset |-> 1, size |-> 1],
  [reg |-> "Sbcs", name |-> "SBACCESS8", mask |-> {0}, offset |-> 0, size |-> 1] >>

\* ((1 << size) - 1) << offset
SchemaMask(f) == Shl64(IntToBits(Pow2(f.size) - 1, f.size), f.offset)

\* A getter of a field: (reg & MASK) >> OFFSET
FieldGet(f, reg) == BitsToInt(Shr64(reg \cap f.mask, f.offset))

\* A setter of a field on the uint32_t cached register:
\* reg &= ~MASK; reg |= static_cast<uint32_t> (val) << OFFSET;
FieldSet(f, reg, val) ==
  (reg \ f.mask) \cup (Shl64(IntToBits(val, 31), f.offset) \cap (0..31))

(***************************************************************************)
(* State                                                                   *)
(***************************************************************************)
VARIABLES
  mMcu,          \* Tap::mMcu, the VSim
  dut,           \* the device behind the pins
  mCurrState,    \* Tap::mCurrState
  mLastIr,       \* Tap::mLastIr
  mRtiCount,     \* Tap::mRtiCount
  exited,        \* the process has called exit (EXIT_FAILURE)
  tapUp,         \* Tap::reset has returned true
  tapCall,       \* the last public Tap call: its arguments, cycles and result
  scanIn,        \* one call of Tap::accessReg taken alone: its inputs
  scanOut,       \* ... and its outcome
  mDmiWidth,     \* DtmJtag::mDmiWidth
  mDmiAddrMask,  \* DtmJtag::mDmiAddrMask
  dtmUp,         \* DtmJtag::reset has returned true
  dtmPc,         \* where dmiRead or dmiWrite stands: "idle", "poll", "dmireset"
  dtmOp,         \* the DTM operation under way or last completed, with its scans
  dmiWritten,    \* per DMI address, the value of the last completed dmiWrite
  mSbRegs,       \* Dmi: the cached mSbcsReg, mSbaddressReg[0], mSbdataReg[0]
  sbDev,         \* the debug module's system bus and the memory behind it
  memIn,         \* a memory transfer: address, size, bytes to write
  memPhase,      \* "idle", "start", "written", "read" or "reread"
  memWrote,      \* the outcome of Cv32e40::write
  memGot,        \* the outcome of Cv32e40::read
  mDmRegs,       \* Dmi: the cached mCommandReg, mAbstractcsReg, mDataReg[0], mDmcontrolReg
  acDev,         \* the debug module's abstract command unit and the hart behind it
  csrCall,       \* the last call of selectHart, readCsr or writeCsr, with its DMI accesses
  cv             \* Cv32e40: mDmi, mRunAction, where the server is, the last call

tapVars == <<mMcu, dut, mCurrState, mLastIr, mRtiCount, exited, tapUp, tapCall>>
scanVars == <<scanIn, scanOut>>
dtmVars == <<mDmiWidth, mDmiAddrMask, dtmUp, dtmPc, dtmOp, dmiWritten>>

memVars == <<mSbRegs, sbDev, memIn, memPhase, memWrote, memGot>>
csrVars == <<mDmRegs, acDev, csrCall, cv>>

vars == <<tapVars, scanVars, dtmVars, memVars, csrVars>>

(***************************************************************************)
(* Inputs the model draws from                                             *)
(***************************************************************************)
\* dtmcs.abits and dtmcs.idle of the device
DutAbits == 7
DutIdle == 1
\* simTimeNs of the constructor, in ticks: unlimited, or ending within reset
SimTimeSet == {0, 8}
TapIrs == {BYPASS0, DTMCS}
TapLens == {2, 32, 65}
TapWdata(len) == {{}, {0, len - 1}}
TapRtiCounts == {0, 2}
\* Device choices for a call that starts no DMI operation of interest
QuietEnv(ub) == [lat |-> 0, err |-> FALSE, ubShift |-> ub]
NoCall ==
  [op |-> "none", ir |-> 0, len |-> 0, wdata |-> {}, pre |-> 0, lastIr |-> 0,
   rti |-> 0, prevIr |-> {}, trace |-> <<>>, reg |-> {}, ok |-> TRUE,
   hung |-> FALSE, drv |-> {}, smp |-> {}]

NoScan == [done |-> FALSE]

ScanIdle == scanIn = NoScan /\ scanOut = NoScan

\* The DMI addresses and data the model uses
DmiAddrs == {4, 16}
DmiValues == {{0, 31}, {1, 2, 3, 5, 7, 11, 29}}

NoOp ==
  [kind |-> "none", addr |-> 0, wdata |-> {}, log |-> <<>>, done |-> TRUE,
   ok |-> TRUE, ret |-> {}]

\* DtmJtag::DtmJtag: mDmiWidth (42U); mDmiAddrMask is left uninitialised
DtmIdle ==
  /\ mDmiWidth = 42
  /\ mDmiAddrMask = {}
  /\ dtmUp = FALSE
  /\ dtmPc = "idle"
  /\ dtmOp = NoOp
  /\ dmiWritten = [a \in DmiAddrs |-> {}]

\* The memory the device has: four words at MemBase and the two top words
MemBase == 1024
MemWords == (MemBase..(MemBase + 3)) \cup {AddrWords - 2, AddrWords - 1}
MemInit == [a \in MemWords |-> [k \in 1..4 |-> 128 + 4 * (a % 8) + (k - 1)]]

NoMem == [done |-> FALSE]

\* Dmi::Dmi: Sbcs has mSbcsReg (RESET_VALUE), Sbaddress and Sbdata zeroes
SbRegsInit ==
  [mSbcsReg |-> SbcsResetValue, mSbaddressReg |-> 0, mSbdataReg |-> <<0, 0, 0, 0>>]

SbDevInit(lat) ==
  [sbcs |-> SbcsAccessBits \cap SbcsResetValue, sbaddr |-> 0, sbdata |-> <<0, 0, 0, 0>>,
   busy |-> 0, lat |-> lat, fault |-> 0, ferr |-> {}, mem |-> MemInit]

MemIdle ==
  /\ mSbRegs = SbRegsInit
  /\ sbDev = SbDevInit(0)
  /\ memIn = NoMem
  /\ memPhase = "idle"
  /\ memWrote = NoMem
  /\ memGot = NoMem

\* Dmi::Dmi: Command, Data and Dmcontrol zeroes, Abstractcs has CMDERR_MASK
DmRegsInit ==
  [mCommandReg |-> {}, mAbstractcsReg |-> CmderrBits, mDataReg |-> {},
   mDmcontrolReg |-> {}, mCurrentHartsel |-> 0]

NoCsr ==
  [op |-> "none", addr |-> 0, val |-> {}, log |-> <<>>, err |-> CMDERR_NONE,
   set |-> FALSE, res |-> {}]

\* mDmi tells whether the unique_ptr holds a Dmi; polls counts the turns of
\* the loop of wait, finish tells whether the simulator has met $finish,
\* left whether the hart had left the halted state since the resume request
\* when wait last read haltsum[0]
NoCv ==
  [mDmi |-> TRUE, mRunAction |-> "NONE", pc |-> "idle", polls |-> 0, finish |-> FALSE,
   op |-> "none", reg |-> 0, ret |-> "none", num |-> 0, left |-> TRUE]

CsrIdle ==
  /\ mDmRegs = DmRegsInit
  /\ acDev = AcDevInit
  /\ csrCall = NoCsr
  /\ cv = NoCv

\* Tap::Tap: mLastIr (0), mRtiCount (1); mCurrState is left uninitialised
TapInit ==
  /\ \E st \in SimTimeSet : mMcu = VSimInit(st)
  /\ dut = DutInit(DutAbits, DutIdle, "ideal")
  /\ mCurrState \in States
  /\ mLastIr = 0
  /\ mRtiCount = 1
  /\ exited = FALSE
  /\ tapUp = FALSE
  /\ tapCall = NoCall
  /\ ScanIdle
  /\ DtmIdle
  /\ MemIdle
  /\ CsrIdle

(***************************************************************************)
(* The public operations of Tap                                            *)
(***************************************************************************)
\* bool Tap::reset ()
TapReset ==
  /\ ~exited
  /\ \E r \in {reset(TapCtx(mCurrState, mMcu, dut, QuietEnv({})))} :
        /\ mMcu' = r.c.mcu
        /\ dut' = r.c.dut
        /\ mCurrState' = r.c.cur
        /\ tapUp' = (tapUp \/ r.ok)
        /\ tapCall' = [NoCall EXCEPT !.op = "reset", !.pre = mCurrState, !.ok = r.ok,
                                     !.lastIr = mLastIr, !.rti = mRtiCount,
                                     !.drv = r.c.drv, !.smp = r.c.smp]
  /\ UNCHANGED <<mLastIr, mRtiCount, exited, scanVars, dtmVars, memVars, csrVars>>

\* The ir of the register access before the coming one ({ir}), or {} when
\* there has been none since reset
PrevIr ==
  CASE tapCall.op \in {"accessReg", "writeReg", "readReg"} -> {tapCall.ir}
    [] tapCall.op = "rtiCount" -> tapCall.prevIr
    [] OTHER -> {}

\* The effect of a call of Tap::accessReg on the Tap's state.  The callers
\* (DtmJtag) take the Tap through reset before the first access.
TapAccess(opname, ir, wdata, len, env) ==
  \E r \in {accessReg(TapCtx(mCurrState, mMcu, dut, env), mLastIr, mRtiCount,
                     ir, wdata, len)} :
     /\ tapUp
     /\ mMcu' = r.c.mcu
     /\ dut' = r.c.dut
     /\ mCurrState' = r.c.cur
     /\ exited' = r.exited
     /\ tapCall' = [op |-> opname, ir |-> ir, len |-> len, wdata |-> wdata,
                    pre |-> mCurrState, lastIr |-> mLastIr, rti |-> mRtiCount,
                    prevIr |-> PrevIr,
                    trace |-> r.c.trace, reg |-> r.reg, ok |-> ~r.exited,
                    hung |-> r.c.hung, drv |-> r.c.drv, smp |-> r.c.smp]
     /\ UNCHANGED <<mLastIr, mRtiCount, tapUp, scanVars, dtmVars, memVars, csrVars>>

\* uint64_t Tap::accessReg (ir, wdata, len)
TapAccessReg ==
  /\ ~exited
  /\ \E ir \in TapIrs, len \in TapLens :
       \E wdata \in TapWdata(len) :
         TapAccess("accessReg", ir, wdata, len, QuietEnv({}))

\* void Tap::writeReg (ir, wdata, len), as DtmJtag::writeDtmcs calls it
TapWriteReg ==
  /\ ~exited
  /\ TapAccess("writeReg", DTMCS, {16}, 32, QuietEnv({}))

\* uint64_t Tap::readReg (ir, len), as DtmJtag::readIdcode calls it
TapReadReg ==
  /\ ~exited
  /\ TapAccess("readReg", IDCODE, {}, 32, QuietEnv({}))

\* void Tap::rtiCount (rtiCount_)
TapRtiCount ==
  /\ ~exited
  /\ \E n \in TapRtiCounts :
       /\ mRtiCount' = n
       /\ tapCall' = [NoCall EXCEPT !.op = "rtiCount", !.pre = mCurrState,
                                    !.lastIr = mLastIr, !.rti = n,
                                    !.prevIr = PrevIr]
  /\ UNCHANGED <<mMcu, dut, mCurrState, mLastIr, exited, tapUp, scanVars, dtmVars, memVars,
               csrVars>>

TapNext == TapReset \/ TapAccessReg \/ TapWriteReg \/ TapReadReg \/ TapRtiCount

SpecTap == TapInit /\ [][TapNext]_vars

(***************************************************************************)
(* One call of Tap::accessReg as a function of the Tap's state and its     *)
(* arguments: the device has just left reset, mCurrState is any state.     *)
(***************************************************************************)
ScanIrs == {BYPASS0, IDCODE, DMIACCESS}
ScanLens == {1, 2, 3, 32, 41, 64}
ScanRtiCounts == {0, 1, 7}
\* What the build makes of the undefined shift in shiftDr (len = 1 only)
UbShiftSet(len) == IF len = 1 THEN {{}, {63}} ELSE {{}}

\* The simulator and the device after a completed Tap::reset
AfterReset == reset(TapCtx(RUN_TEST_IDLE, VSimInit(0), DutInit(DutAbits, DutIdle, "ideal"), QuietEnv({}))).c

TapIdle ==
  /\ mMcu = VSimInit(0)
  /\ dut = DutInit(DutAbits, DutIdle, "ideal")
  /\ mCurrState = RUN_TEST_IDLE
  /\ mLastIr = 0
  /\ mRtiCount = 1
  /\ exited = FALSE
  /\ tapUp = FALSE
  /\ tapCall = NoCall

ScanInit ==
  /\ TapIdle
  /\ DtmIdle
  /\ MemIdle
  /\ CsrIdle
  /\ \E cur \in States, ir \in ScanIrs, len \in ScanLens, rti \in ScanRtiCounts :
       \E wdata \in TapWdata(len), ub \in UbShiftSet(len) :
         scanIn = [done |-> TRUE, cur |-> cur, ir |-> ir, len |-> len, rti |-> rti,
                   wdata |-> wdata, ub |-> ub]
  /\ scanOut = NoScan

\* mLastIr is 0 in every state of the program: no code assigns it
ScanApply ==
  /\ scanIn.done /\ ~scanOut.done
  /\ \E r \in {accessReg(TapCtx(scanIn.cur, AfterReset.mcu, AfterReset.dut,
                                 QuietEnv(scanIn.ub)),
                          0, scanIn.rti, scanIn.ir, scanIn.wdata, scanIn.len)} :
        scanOut' = [done |-> TRUE, cur |-> r.c.cur, trace |-> r.c.trace,
                    reg |-> r.reg, exited |-> r.exited, hung |-> r.c.hung]
  /\ UNCHANGED <<tapVars, dtmVars, memVars, csrVars, scanIn>>

ScanNext == ScanApply

SpecScan == ScanInit /\ [][ScanNext]_vars

(***************************************************************************)
(* Tap::nextState on its own: the controller state followed through any    *)
(* sequence of TMS values from any of the 16 states.  The record kept is   *)
(* the last transition and the run of TMS = 1 cycles it is part of.        *)
(***************************************************************************)
\* Runs of TMS = 1 are counted up to this length
MaxOnes == 6

WalkInit ==
  /\ mMcu = VSimInit(0)
  /\ dut = DutInit(DutAbits, DutIdle, "ideal")
  /\ mCurrState \in States
  /\ mLastIr = 0
  /\ mRtiCount = 1
  /\ exited = FALSE
  /\ tapUp = FALSE
  /\ tapCall = [op |-> "none", pre |-> mCurrState, tms |-> 0, ones |-> 0,
                runFrom |-> mCurrState]
  /\ ScanIdle
  /\ DtmIdle
  /\ MemIdle
  /\ CsrIdle

\* void Tap::nextState (tms)
WalkNextState ==
  /\ \E tms \in {0, 1} :
       /\ mCurrState' = nextState(mCurrState, tms)
       /\ tapCall' = [op |-> "nextState", pre |-> mCurrState, tms |-> tms,
                      ones |-> IF tms = 1 THEN Min(tapCall.ones + 1, MaxOnes) ELSE 0,
                      runFrom |-> IF tms = 1 /\ tapCall.ones > 0
                                  THEN tapCall.runFrom ELSE mCurrState]
  /\ UNCHANGED <<mMcu, dut, mLastIr, mRtiCount, exited, tapUp, scanVars, dtmVars, memVars,
               csrVars>>

WalkNext == WalkNextState

SpecWalk == WalkInit /\ [][WalkNext]_vars

(***************************************************************************)
(* Tap::gotoState on its own: from any of the 16 controller states to any  *)
(* target state, over the simulated clock.  The record kept is the target  *)
(* and the TCK cycles the call took.                                       *)
(***************************************************************************)
GotoInit ==
  /\ TapInit
  /\ mMcu = VSimInit(0)

\* bool Tap::gotoState (s)
TapGotoState ==
  /\ \E s \in States :
       \E c \in {gotoState(TapCtx(mCurrState, mMcu, dut, QuietEnv({})), s)} :
         /\ mMcu' = c.mcu
         /\ dut' = c.dut
         /\ mCurrState' = c.cur
         /\ tapCall' = [op |-> "gotoState", pre |-> mCurrState, target |-> s,
                        trace |-> c.trace, hung |-> c.hung]
  /\ UNCHANGED <<mLastIr, mRtiCount, exited, tapUp, scanVars, dtmVars, memVars, csrVars>>

GotoNext == TapGotoState

SpecGoto == GotoInit /\ [][GotoNext]_vars

(***************************************************************************)
(* DtmJtag over the Tap: reset as one step, dmiRead and dmiWrite scan by   *)
(* scan.  The device is ideal (every operation done at once, no error) or  *)
(* real (an operation stays in progress for up to MaxLat polls and may     *)
(* fail).                                                                  *)
(***************************************************************************)
DutKinds == {"ideal", "real"}

DutEnvs(d) ==
  IF d.kind = "ideal" THEN {[lat |-> 0, err |-> FALSE, ubShift |-> {}]}
  ELSE {[lat |-> l, err |-> e, ubShift |-> {}] : l \in 0..MaxLat, e \in BOOLEAN}

\* The real device is driven at one address with one value
DtmAddrs(d) == IF d.kind = "ideal" THEN DmiAddrs ELSE {4}
DtmValues(d) == IF d.kind = "ideal" THEN DmiValues ELSE {{0, 31}}

\* dtmcs.abits and dtmcs.idle of the devices the DTM meets
DtmAbits == {DutAbits, 6}
DtmIdles == {DutIdle, 5}

\* DtmJtag::DtmJtag in front of a device whose dtmcs reports one of the
\* given address sizes and idle counts
DtmDevInit(abitsSet, idles) ==
  /\ \E st \in SimTimeSet : mMcu = VSimInit(st)
  /\ \E k \in DutKinds, abits \in abitsSet, idle \in idles :
       dut = DutInit(abits, idle, k)
  /\ mCurrState \in States
  /\ mLastIr = 0
  /\ mRtiCount = 1
  /\ exited = FALSE
  /\ tapUp = FALSE
  /\ tapCall = NoCall
  /\ ScanIdle
  /\ mDmiWidth = 42
  /\ mDmiAddrMask \in {{}, 0..63}
  /\ dtmUp = FALSE
  /\ dtmPc = "idle"
  /\ dtmOp = NoOp
  /\ dmiWritten = [a \in DmiAddrs |-> {}]
  /\ MemIdle
  /\ CsrIdle

\* The Tap as the DTM holds it, with the device's choices for the scan
DtmCtx(env) == TapCtx(mCurrState, mMcu, dut, env)

\* What a scan leaves behind in the Tap
DtmScanned(r) ==
  /\ mMcu' = r.c.mcu
  /\ dut' = r.c.dut
  /\ mCurrState' = r.c.cur
  /\ exited' = r.exited

\* bool DtmJtag::reset (); dtmOp keeps the idcode and, as wdata, the dtmcs
\* it read
DtmReset ==
  /\ ~exited /\ dtmPc = "idle"
  /\ \E r \in {dtmReset(DtmCtx(QuietEnv({})), mLastIr, mRtiCount, mDmiWidth,
                        mDmiAddrMask)} :
        /\ mMcu' = r.c.mcu
        /\ dut' = r.c.dut
        /\ mCurrState' = r.c.cur
        /\ mRtiCount' = r.rti
        /\ mDmiWidth' = r.width
        /\ mDmiAddrMask' = r.mask
        /\ tapUp' = (tapUp \/ r.ok)
        /\ dtmUp' = (dtmUp \/ r.ok)
        /\ exited' = r.exited
        /\ dtmOp' = [NoOp EXCEPT !.kind = "reset", !.ok = r.ok, !.ret = r.idcode,
                                 !.wdata = r.dtmcs]
  /\ UNCHANGED <<mLastIr, tapCall, scanVars, memVars, csrVars, dtmPc, dmiWritten>>

\* dmiRead (address) up to its first scan: the writeReg that starts the read.
\* Cv32e40 takes the DTM through reset before any DMI access.
DmiReadStart ==
  /\ ~exited /\ dtmPc = "idle" /\ dtmUp
  /\ \E a \in DtmAddrs(dut), env \in DutEnvs(dut) :
       \E reg \in {dmiReadReg(a, mDmiAddrMask)} :
       \E r \in {writeReg(DtmCtx(env), mLastIr, mRtiCount, DMIACCESS, reg, mDmiWidth)} :
          /\ DtmScanned(r)
          /\ dtmOp' = [kind |-> "read", addr |-> a, wdata |-> {},
                       log |-> <<[scan |-> "start", val |-> reg, res |-> 0]>>,
                       done |-> FALSE, ok |-> TRUE, ret |-> {}]
  /\ dtmPc' = "poll"
  /\ UNCHANGED <<mLastIr, mRtiCount, tapUp, tapCall, scanVars, memVars, csrVars,
                 mDmiWidth, mDmiAddrMask, dtmUp, dmiWritten>>

\* dmiWrite (address, wdata) up to its first scan
DmiWriteStart ==
  /\ ~exited /\ dtmPc = "idle" /\ dtmUp
  /\ \E a \in DtmAddrs(dut), v \in DtmValues(dut), env \in DutEnvs(dut) :
       \E reg \in {dmiWriteReg(a, v, mDmiAddrMask)} :
       \E r \in {writeReg(DtmCtx(env), mLastIr, mRtiCount, DMIACCESS, reg, mDmiWidth)} :
          /\ DtmScanned(r)
          /\ dtmOp' = [kind |-> "write", addr |-> a, wdata |-> v,
                       log |-> <<[scan |-> "start", val |-> reg, res |-> 0]>>,
                       done |-> FALSE, ok |-> TRUE, ret |-> {}]
  /\ dtmPc' = "poll"
  /\ UNCHANGED <<mLastIr, mRtiCount, tapUp, tapCall, scanVars, memVars, csrVars,
                 mDmiWidth, mDmiAddrMask, dtmUp, dmiWritten>>

\* One turn of the loop of dmiRead or dmiWrite: readReg (DMIACCESS), then
\* either on to the DMI reset, or out of the loop and return
DmiPoll ==
  /\ ~exited /\ dtmPc = "poll"
  /\ \E r \in {readReg(Fresh(DtmCtx(QuietEnv({}))), mLastIr, mRtiCount, DMIACCESS,
                       mDmiWidth)} :
     \E nxt \in {dmiPollNext(r.reg)} :
     \E back \in {nxt = "idle"} :
        /\ DtmScanned(r)
        /\ dtmPc' = nxt
        /\ dtmOp' = [dtmOp EXCEPT
                       !.log = Append(@, [scan |-> "poll", val |-> {}, res |-> DmiRes(r.reg)]),
                       !.done = back,
                       !.ok = DmiRes(r.reg) = RES_OK,
                       !.ret = IF back /\ dtmOp.kind = "read" THEN DmiData(r.reg) ELSE {}]
        /\ dmiWritten' = IF back /\ dtmOp.kind = "write"
                         THEN [dmiWritten EXCEPT ![dtmOp.addr] = {dtmOp.wdata}]
                         ELSE dmiWritten
  /\ UNCHANGED <<mLastIr, mRtiCount, tapUp, tapCall, scanVars, memVars, csrVars,
                 mDmiWidth, mDmiAddrMask, dtmUp>>

\* writeDtmcs (0x10000) in the loop of dmiRead or dmiWrite
DmiRetryReset ==
  /\ ~exited /\ dtmPc = "dmireset"
  /\ \E r \in {writeDtmcs(DtmCtx(QuietEnv({})), mLastIr, mRtiCount, DtmcsOnRetry)} :
        /\ DtmScanned(r)
        /\ dtmOp' = [dtmOp EXCEPT
                       !.log = Append(@, [scan |-> "dtmcs", val |-> DtmcsOnRetry, res |-> 0])]
  /\ dtmPc' = "poll"
  /\ UNCHANGED <<mLastIr, mRtiCount, tapUp, tapCall, scanVars, memVars, csrVars,
                 mDmiWidth, mDmiAddrMask, dtmUp, dmiWritten>>

DtmNext == DtmReset \/ DmiReadStart \/ DmiWriteStart \/ DmiPoll \/ DmiRetryReset

DtmInit == DtmDevInit(DtmAbits, DtmIdles)

SpecDtm == DtmInit /\ [][DtmNext]_vars

\* The DTM in front of devices whose dtmcs.abits is at an end of the range
\* of the 6-bit field or at the widest scan the Tap takes
DtmWideAbits == {0, 30, 31, 63}

DtmWideInit == DtmDevInit(DtmWideAbits, {DutIdle})

SpecDtmWide == DtmWideInit /\ [][DtmNext]_vars

(***************************************************************************)
(* Memory transfers: one Cv32e40::write and one Cv32e40::read of the same  *)
(* range, as functions of the address, the size and the bytes, over the    *)
(* debug module's system bus.                                              *)
(***************************************************************************)
\* Largest transfer size
MaxBytes == 9
MemAddrs ==
  {[w |-> MemBase, o |-> k] : k \in 0..3}
    \cup {[w |-> AddrWords - 2, o |-> 0], [w |-> AddrWords - 1, o |-> 0],
          [w |-> AddrWords - 1, o |-> 1]}
\* The first byte of the data written; byte i is the seed plus i
DataSeeds == {16, 64}
\* What an uninitialised uint32_t, or a byte beyond the buffer, may hold
JunkWords == {<<0, 0, 0, 0>>, <<255, 255, 255, 255>>}

\* The range [addr, addr + n) lies within the 32-bit address space
MemInRange(addr, n) ==
  LET e == MemEndByte(addr, n)
  IN e.w < AddrWords \/ (e.w = AddrWords /\ e.o = 0)

MemInit0 ==
  /\ TapIdle
  /\ ScanIdle
  /\ DtmIdle
  /\ CsrIdle
  /\ mSbRegs = SbRegsInit
  /\ \E lat \in {0, MaxLat} : sbDev = SbDevInit(lat)
  /\ \E addr \in MemAddrs, n \in 0..MaxBytes, seed \in DataSeeds, junk \in JunkWords :
       /\ MemInRange(addr, n)
       /\ memIn = [done |-> TRUE, addr |-> addr, n |-> n,
                   buf |-> [i \in 1..n |-> seed + i], junk |-> junk]
  /\ memPhase = "start"
  /\ memWrote = NoMem
  /\ memGot = NoMem

SbState == [host |-> mSbRegs, dm |-> sbDev]

\* Cv32e40::write: nothing for size 0, otherwise Dmi::writeMem on a copy of
\* the buffer, whose result is ignored
MemWrite ==
  /\ memPhase = "start"
  /\ LET r == IF memIn.n = 0
              THEN [s |-> SbState, err |-> SBERR_NONE, overrun |-> FALSE]
              ELSE writeMem(SbState, memIn.addr, memIn.n, memIn.buf, memIn.junk)
     IN /\ mSbRegs' = r.s.host
        /\ sbDev' = r.s.dm
        /\ memWrote' = [done |-> TRUE, err |-> r.err, overrun |-> r.overrun]
  /\ memPhase' = "written"
  /\ UNCHANGED <<tapVars, scanVars, dtmVars, csrVars, memIn, memGot>>

\* Cv32e40::read: Dmi::readMem into a buffer of size bytes, whose result is
\* ignored; the bytes are then copied out
MemRead ==
  /\ memPhase \in {"start", "written"}
  /\ LET r == readMem(SbState, memIn.addr, memIn.n)
     IN /\ mSbRegs' = r.s.host
        /\ sbDev' = r.s.dm
        /\ memGot' = [done |-> TRUE, buf |-> r.buf, err |-> r.err, overrun |-> r.overrun]
  /\ memPhase' = IF memPhase = "start" THEN "read" ELSE "reread"
  /\ UNCHANGED <<tapVars, scanVars, dtmVars, csrVars, memIn, memWrote>>

MemNext == MemWrite \/ MemRead

SpecMem == MemInit0 /\ [][MemNext]_vars

(***************************************************************************)
(* Memory access over a system bus that fails: the device's bus access     *)
(* number fault, counted from the construction of Dmi, ends with the bits  *)
(* ferr in sberror.                                                        *)
(***************************************************************************)
\* Largest number of the bus access that fails
MaxFault == 3
SbErrs == {SBERR_BAD_ADDR, SBERR_OTHER}
MemErrAddrs == {[w |-> MemBase, o |-> k] : k \in 0..1}

MemErrInit ==
  /\ TapIdle
  /\ ScanIdle
  /\ DtmIdle
  /\ CsrIdle
  /\ mSbRegs = SbRegsInit
  /\ \E lat \in {0, MaxLat}, k \in 1..MaxFault, e \in SbErrs :
       sbDev = [SbDevInit(lat) EXCEPT !.fault = k,
                                      !.ferr = Shl64(IntToBits(e, 3), SBERROR_OFFSET)]
  /\ \E addr \in MemErrAddrs, n \in 1..MaxBytes :
       memIn = [done |-> TRUE, addr |-> addr, n |-> n,
                buf |-> [i \in 1..n |-> i], junk |-> <<0, 0, 0, 0>>]
  /\ memPhase = "start"
  /\ memWrote = NoMem
  /\ memGot = NoMem

SpecMemErr == MemErrInit /\ [][MemNext]_vars

(***************************************************************************)
(* CSR access: Dmi::selectHart, Dmi::readCsr and Dmi::writeCsr called in   *)
(* any order.  Before each access the device fixes how many DMI accesses   *)
(* its next command stays busy and the error the command meets.            *)
(***************************************************************************)
CsrHarts == {0, 1}
CsrAddrs == {MSTATUS, DCSR}
CsrValues == {{2, 31}}
\* The errors a command meets: any of them when it finishes at once, and one
\* of two when it stays busy
CsrFails(lat) ==
  IF lat = 0
  THEN {CMDERR_NONE, CMDERR_UNSUPPORTED, CMDERR_EXCEPT, CMDERR_HALT_RESUME,
        CMDERR_BUS, CMDERR_OTHER}
  ELSE {CMDERR_NONE, CMDERR_HALT_RESUME}

CsrInit ==
  /\ TapIdle
  /\ ScanIdle
  /\ DtmIdle
  /\ MemIdle
  /\ CsrIdle

CsrState(lat, fail) ==
  [host |-> mDmRegs, dm |-> [acDev EXCEPT !.lat = lat, !.fail = fail], log |-> <<>>]

CsrSelectHart ==
  /\ \E h \in CsrHarts :
       \E s \in {selectHart(CsrState(acDev.lat, acDev.fail), h)} :
         /\ mDmRegs' = s.host
         /\ acDev' = s.dm
         /\ csrCall' = [op |-> "selectHart", addr |-> h, val |-> {}, log |-> s.log,
                        err |-> CMDERR_NONE, set |-> FALSE, res |-> {}]
  /\ UNCHANGED <<tapVars, scanVars, dtmVars, memVars, cv>>

CsrRead ==
  /\ \E addr \in CsrAddrs, lat \in 0..MaxLat :
       \E fail \in CsrFails(lat) :
       \E r \in {readCsr(CsrState(lat, fail), addr)} :
         /\ mDmRegs' = r.s.host
         /\ acDev' = r.s.dm
         /\ csrCall' = [op |-> "readCsr", addr |-> addr, val |-> {}, log |-> r.s.log,
                        err |-> r.err, set |-> r.set, res |-> r.res]
  /\ UNCHANGED <<tapVars, scanVars, dtmVars, memVars, cv>>

CsrWrite ==
  /\ \E addr \in CsrAddrs, val \in CsrValues, lat \in 0..MaxLat :
       \E fail \in CsrFails(lat) :
       \E r \in {writeCsr(CsrState(lat, fail), addr, val)} :
         /\ mDmRegs' = r.s.host
         /\ acDev' = r.s.dm
         /\ csrCall' = [op |-> "writeCsr", addr |-> addr, val |-> val, log |-> r.s.log,
                        err |-> r.err, set |-> r.set, res |-> r.res]
  /\ UNCHANGED <<tapVars, scanVars, dtmVars, memVars, cv>>

CsrNext == CsrSelectHart \/ CsrRead \/ CsrWrite

SpecCsr == CsrInit /\ [][CsrNext]_vars

(***************************************************************************)
(* Cv32e40: the calls the debug server makes on the adapter once it is     *)
(* constructed, run control and reset in one specification and register    *)
(* access in the other.  prepare, resume and wait follow one another;      *)
(* wait is one action for each turn of its loop.  The debug module         *)
(* completes every abstract command before the next DMI access.            *)
(***************************************************************************)
\* Most turns of the loop of wait that are followed
MaxPolls == 4
\* The turn of the loop during which the simulated time reaches its end
SimEndPoll == 2
RunActions == {"NONE", "STEP", "CONTINUE"}
CvRegs == {0, 31, REG_PC_GDBNUM, REG_FT0_GDBNUM, 64, REG_CSR0_GDBNUM + MSTATUS,
           REG_CSR_LAST_GDBNUM, REG_CSR_LAST_GDBNUM + 1}
CvValues == {{2, 31}}
\* What an unassigned uint32_t may hold
CvJunk == {{}, 0..31}

\* Cv32e40::Cv32e40 after dtmReset: selectHart (0); haltHart (0);
\* dmcontrol ()->read (); dmstatus ()->read (), on a hart that is running
CvConstructed ==
  DmiGet(DmcontrolRead(haltHart(selectHart(
    [host |-> DmRegsInit, dm |-> [AcDevInit EXCEPT !.halted = FALSE], log |-> <<>>],
    0), 0)), DMSTATUS_DMI_ADDR).s

\* mRunAction is left uninitialised
CvInit ==
  /\ TapIdle
  /\ ScanIdle
  /\ DtmIdle
  /\ MemIdle
  /\ \E s \in {CvConstructed} :
       /\ mDmRegs = s.host
       /\ acDev = s.dm
       /\ csrCall = [NoCsr EXCEPT !.op = "Cv32e40", !.log = s.log]
  /\ \E a \in RunActions : cv = [NoCv EXCEPT !.mRunAction = a]

CvState == [host |-> mDmRegs, dm |-> acDev, log |-> <<>>]

\* The simulator is all done: $finish, or the end of the simulated time
CvAllDone == cv.finish \/ cv.polls >= SimEndPoll

\* The call op has left the Dmi as in s and the adapter as c
CvSet(s, op, c) ==
  /\ mDmRegs' = s.host
  /\ acDev' = s.dm
  /\ csrCall' = [NoCsr EXCEPT !.op = op, !.log = s.log]
  /\ cv' = [c EXCEPT !.op = op]
  /\ UNCHANGED <<tapVars, scanVars, dtmVars, memVars>>

\* Cv32e40::prepare with one action
CvPrepare ==
  /\ cv.pc \in {"idle", "prepared"}
  /\ \E a \in RunActions :
       CvSet(CvState, "prepare",
             [cv EXCEPT !.mRunAction = a, !.pc = IF a = "NONE" THEN "idle" ELSE "prepared",
                        !.ret = IF a = "NONE" THEN "false" ELSE "true"])

\* Cv32e40::resume
CvResume ==
  /\ cv.pc = "prepared" /\ cv.mDmi
  /\ \E junk \in CvJunk, fail \in acDev.errs :
       \E r \in {resume([CvState EXCEPT !.dm.fail = fail], cv.mRunAction, junk)} :
         CvSet(r.s, "resume",
               [cv EXCEPT !.pc = "wait", !.polls = 0,
                          !.ret = IF r.ret THEN "true" ELSE "false"])

\* Cv32e40::wait: one turn of the loop of stepInstr or of stoppedAtEbreak,
\* and the rest of the call when the turn ends the loop
CvPoll ==
  /\ cv.pc = "wait" /\ cv.polls < MaxPolls
  /\ \E ev \in HartEvents, fin \in BOOLEAN, junk \in CvJunk, fail \in acDev.errs :
       \E r \in {haltsumRead([CvState EXCEPT !.dm = [HartRun(acDev, ev) EXCEPT !.fail = fail]])} :
         IF 0 \in r.val
         THEN \E f \in {IF cv.mRunAction = "STEP" THEN stepInstr(r.s, junk)
                                                   ELSE runToBreak(r.s, junk)} :
                CvSet([f.s EXCEPT !.log = r.s.log \o @], "wait",
                      [cv EXCEPT !.pc = "idle", !.polls = @ + 1, !.ret = f.res,
                                 !.finish = @ \/ fin, !.left = r.s.dm.left])
         ELSE CvSet(r.s, "wait",
                    [cv EXCEPT !.polls = @ + 1, !.ret = "none", !.finish = @ \/ fin,
                               !.left = r.s.dm.left])

\* Cv32e40::halt: mDmi->haltHart (0), then mDmstatus->read () through the
\* adapter's own mDmstatus, which holds no object: the call ends the
\* process or returns either value without a DMI access
CvHalt ==
  /\ cv.pc = "idle" /\ cv.mDmi
  /\ \E out \in {"crashed", "true", "false"} :
       CvSet(haltHart(CvState, 0), "halt",
             [cv EXCEPT !.pc = IF out = "crashed" THEN "crashed" ELSE "idle",
                        !.ret = out])

\* Cv32e40::readRegister
CvReadRegister ==
  /\ cv.pc = "idle" /\ cv.mDmi
  /\ \E reg \in CvRegs, junk \in CvJunk :
       \E r \in {readRegister(CvState, reg, junk)} :
         CvSet(r.s, "readRegister", [cv EXCEPT !.reg = reg, !.num = r.retval])

\* Cv32e40::writeRegister
CvWriteRegister ==
  /\ cv.pc = "idle" /\ cv.mDmi
  /\ \E reg \in CvRegs, value \in CvValues :
       \E r \in {writeRegister(CvState, reg, value)} :
         CvSet(r.s, "writeRegister", [cv EXCEPT !.reg = reg, !.num = r.retval])

\* Dmi::hartsellen
CvHartsellen ==
  /\ cv.pc = "idle" /\ cv.mDmi
  /\ \E r \in {hartsellen(CvState)} :
       CvSet(r.s, "hartsellen", [cv EXCEPT !.num = r.ret])

\* A reset that makes no change to mDmi
mDmiKept(c) == c

\* mDmi.reset ()
mDmiReset(c) == [c EXCEPT !.mDmi = FALSE]

\* Cv32e40::reset
CvReset ==
  /\ cv.pc \in {"idle", "prepared"}
  /\ CvSet(CvState, "reset", [mDmiReset(cv) EXCEPT !.ret = "SUCCESS"])

\* A call that goes through mDmi when it holds no Dmi: the call ends the
\* process, or returns without a DMI access
CvNoDmi ==
  /\ cv.pc \in {"idle", "prepared"} /\ ~cv.mDmi
  /\ \E op \in {"readRegister", "writeRegister", "resume", "halt"},
        out \in {"crashed", "none"} :
       CvSet(CvState, op, [cv EXCEPT !.pc = IF out = "crashed" THEN "crashed" ELSE @,
                                     !.ret = out])

CvNext ==
  \/ CvPrepare
  \/ CvResume
  \/ CvPoll
  \/ CvHalt
  \/ CvReset
  \/ CvNoDmi

SpecCv == CvInit /\ [][CvNext]_vars

\* The adapter on a debug module that acts on a resume request up to
\* MaxResumeLat DMI accesses after the write of dmcontrol
MaxResumeLat == 2

CvDevInit(lats, errs) ==
  /\ TapIdle
  /\ ScanIdle
  /\ DtmIdle
  /\ MemIdle
  /\ \E s \in {CvConstructed}, k \in lats :
       /\ mDmRegs = s.host
       /\ acDev = [s.dm EXCEPT !.rlat = k, !.errs = errs]
       /\ csrCall = [NoCsr EXCEPT !.op = "Cv32e40", !.log = s.log]
  /\ \E a \in RunActions : cv = [NoCv EXCEPT !.mRunAction = a]

CvLatInit == CvDevInit(0..MaxResumeLat, {CMDERR_NONE})

SpecCvLat == CvLatInit /\ [][CvNext]_vars

\* The adapter on a debug module whose next abstract command may meet an
\* error when resume or wait is called
CvErrs == {CMDERR_NONE, CMDERR_EXCEPT}

CvErrInit == CvDevInit({0}, CvErrs)

SpecCvErr == CvErrInit /\ [][CvNext]_vars

\* Run control with calls of Dmi::hartsellen in between
CvHartNext == CvNext \/ CvHartsellen

SpecCvHart == CvInit /\ [][CvHartNext]_vars

RegNext ==
  \/ CvReadRegister
  \/ CvWriteRegister
  \/ CvHartsellen

SpecReg == CvInit /\ [][RegNext]_vars

(***************************************************************************)
(* VSim on its own: the clock driver as its callers use it, one call of    *)
(* advanceHalfPeriod, tms or tdi at a time.                                *)
(***************************************************************************)
\* void VSim::advanceHalfPeriod ()
VSimAdvance ==
  /\ mMcu' = advanceHalfPeriod(mMcu)
  /\ tapCall' = [NoCall EXCEPT !.op = "advanceHalfPeriod"]
  /\ UNCHANGED <<dut, mCurrState, mLastIr, mRtiCount, exited, tapUp, scanVars, dtmVars,
                 memVars, csrVars>>

\* void VSim::tms (const bool tms_)
VSimTms ==
  /\ \E b \in 0..1 : mMcu' = [mMcu EXCEPT !.tms = b]
  /\ tapCall' = [NoCall EXCEPT !.op = "tms"]
  /\ UNCHANGED <<dut, mCurrState, mLastIr, mRtiCount, exited, tapUp, scanVars, dtmVars,
                 memVars, csrVars>>

\* void VSim::tdi (const bool tdi_)
VSimTdi ==
  /\ \E b \in 0..1 : mMcu' = [mMcu EXCEPT !.tdi = b]
  /\ tapCall' = [NoCall EXCEPT !.op = "tdi"]
  /\ UNCHANGED <<dut, mCurrState, mLastIr, mRtiCount, exited, tapUp, scanVars, dtmVars,
                 memVars, csrVars>>

VSimNext == VSimAdvance \/ VSimTms \/ VSimTdi

SpecVSim == TapInit /\ [][VSimNext]_vars

(***************************************************************************)
(* The register classes' field accessors: a field of the table, a cached   *)
(* register value, and calls of the field's getter and setter.             *)
(***************************************************************************)
FieldRegValues == {{}, 0..31, {0, 15, 20, 31}}
FieldVals(f) == {0, 1, Pow2(f.size) - 1}

FieldCall(op, i, reg, val, res) ==
  [op |-> op, addr |-> i, val |-> reg, log |-> <<>>, err |-> CMDERR_NONE,
   set |-> FALSE, res |-> res, arg |-> val]

FieldInit ==
  /\ TapIdle
  /\ ScanIdle
  /\ DtmIdle
  /\ MemIdle
  /\ mDmRegs = DmRegsInit
  /\ acDev = AcDevInit
  /\ cv = NoCv
  /\ \E i \in 1..Len(FieldTable), reg \in FieldRegValues :
       csrCall = FieldCall("field", i, reg, 0, 0)

FieldRead ==
  /\ csrCall' = FieldCall("get", csrCall.addr, csrCall.val, 0,
                          FieldGet(FieldTable[csrCall.addr], csrCall.val))
  /\ UNCHANGED <<tapVars, scanVars, dtmVars, memVars, mDmRegs, acDev, cv>>

FieldWrite ==
  /\ \E val \in FieldVals(FieldTable[csrCall.addr]) :
       csrCall' = FieldCall("set", csrCall.addr,
                            FieldSet(FieldTable[csrCall.addr], csrCall.val, val), val, 0)
  /\ UNCHANGED <<tapVars, scanVars, dtmVars, memVars, mDmRegs, acDev, cv>>

FieldNext == FieldRead \/ FieldWrite

SpecField == FieldInit /\ [][FieldNext]_vars

(***************************************************************************)
(* The register classes Sbcs and Abstractcs on their own: read, reset, the *)
(* clear operations of the write-1-to-clear fields and write, called in    *)
(* any order against a debug module that holds errors.                     *)
(***************************************************************************)
W1cSbErrs == {{}, {SBERROR_OFFSET, SBERROR_OFFSET + 1}, {SBBUSYERROR_OFFSET},
              SbcsErrorBits \cup {SBBUSYERROR_OFFSET}}
W1cCmderrs == {CMDERR_NONE, CMDERR_EXCEPT, CMDERR_OTHER}

W1cCall(reg, op) ==
  [op |-> op, addr |-> 0, val |-> {}, log |-> <<>>, err |-> CMDERR_NONE,
   set |-> FALSE, res |-> {}, reg |-> reg,
   prev |-> IF "reg" \in DOMAIN csrCall /\ csrCall.reg = reg THEN csrCall.op ELSE "none"]

W1cInit ==
  /\ TapIdle
  /\ ScanIdle
  /\ DtmIdle
  /\ mSbRegs = SbRegsInit
  /\ \E e \in W1cSbErrs : sbDev = [SbDevInit(0) EXCEPT !.sbcs = @ \cup e]
  /\ memIn = NoMem
  /\ memPhase = "idle"
  /\ memWrote = NoMem
  /\ memGot = NoMem
  /\ mDmRegs = DmRegsInit
  /\ \E e \in W1cCmderrs :
       acDev = [AcDevInit EXCEPT !.cmderr = e, !.dmcontrol = {DMACTIVE_OFFSET}]
  /\ csrCall = NoCsr
  /\ cv = NoCv

\* void Dmi::Sbcs::read ()
SbcsRead ==
  /\ \E r \in {DmRead(sbDev, SBCS_DMI_ADDR)} :
       /\ mSbRegs' = [mSbRegs EXCEPT !.mSbcsReg = r.val]
       /\ sbDev' = r.d
  /\ csrCall' = W1cCall("sbcs", "read")
  /\ UNCHANGED <<tapVars, scanVars, dtmVars, memIn, memPhase, memWrote, memGot,
                 mDmRegs, acDev, cv>>

\* void Dmi::Sbcs::reset ()
SbcsReset ==
  /\ mSbRegs' = [mSbRegs EXCEPT !.mSbcsReg = SbcsResetValue]
  /\ csrCall' = W1cCall("sbcs", "reset")
  /\ UNCHANGED <<tapVars, scanVars, dtmVars, sbDev, memIn, memPhase, memWrote, memGot,
                 mDmRegs, acDev, cv>>

\* void Dmi::Sbcs::sberrorClear ()
SbcsSberrorClear ==
  /\ mSbRegs' = [mSbRegs EXCEPT !.mSbcsReg = sberrorClear(@)]
  /\ csrCall' = W1cCall("sbcs", "sberrorClear")
  /\ UNCHANGED <<tapVars, scanVars, dtmVars, sbDev, memIn, memPhase, memWrote, memGot,
                 mDmRegs, acDev, cv>>

\* void Dmi::Sbcs::sbbusyerrorClear ()
SbcsSbbusyerrorClear ==
  /\ mSbRegs' = [mSbRegs EXCEPT !.mSbcsReg = @ \cup {SBBUSYERROR_OFFSET}]
  /\ csrCall' = W1cCall("sbcs", "sbbusyerrorClear")
  /\ UNCHANGED <<tapVars, scanVars, dtmVars, sbDev, memIn, memPhase, memWrote, memGot,
                 mDmRegs, acDev, cv>>

\* void Dmi::Sbcs::write ()
SbcsWrite ==
  /\ sbDev' = DmWrite(sbDev, SBCS_DMI_ADDR, mSbRegs.mSbcsReg)
  /\ csrCall' = W1cCall("sbcs", "write")
  /\ UNCHANGED <<tapVars, scanVars, dtmVars, mSbRegs, memIn, memPhase, memWrote, memGot,
                 mDmRegs, acDev, cv>>

\* void Dmi::Abstractcs::read ()
AbstractcsRegRead ==
  /\ \E r \in {AcRead(acDev, ABSTRACTCS_DMI_ADDR)} :
       /\ mDmRegs' = [mDmRegs EXCEPT !.mAbstractcsReg = r.val]
       /\ acDev' = r.d
  /\ csrCall' = W1cCall("abstractcs", "read")
  /\ UNCHANGED <<tapVars, scanVars, dtmVars, memVars, cv>>

\* void Dmi::Abstractcs::reset ()
AbstractcsReset ==
  /\ mDmRegs' = [mDmRegs EXCEPT !.mAbstractcsReg = CmderrBits]
  /\ csrCall' = W1cCall("abstractcs", "reset")
  /\ UNCHANGED <<tapVars, scanVars, dtmVars, memVars, acDev, cv>>

\* void Dmi::Abstractcs::cmderrClear ()
AbstractcsCmderrClear ==
  /\ mDmRegs' = [mDmRegs EXCEPT !.mAbstractcsReg = @ \cup CmderrBits]
  /\ csrCall' = W1cCall("abstractcs", "cmderrClear")
  /\ UNCHANGED <<tapVars, scanVars, dtmVars, memVars, acDev, cv>>

\* void Dmi::Abstractcs::write ()
AbstractcsWrite ==
  /\ acDev' = AcWrite(acDev, ABSTRACTCS_DMI_ADDR, mDmRegs.mAbstractcsReg)
  /\ csrCall' = W1cCall("abstractcs", "write")
  /\ UNCHANGED <<tapVars, scanVars, dtmVars, memVars, mDmRegs, cv>>

W1cNext ==
  \/ SbcsRead
  \/ SbcsReset
  \/ SbcsSberrorClear
  \/ SbcsSbbusyerrorClear
  \/ SbcsWrite
  \/ AbstractcsRegRead
  \/ AbstractcsReset
  \/ AbstractcsCmderrClear
  \/ AbstractcsWrite

SpecW1c == W1cInit /\ [][W1cNext]_vars

(***************************************************************************)
(* Properties of Tap                                                       *)
(***************************************************************************)
AccessOps == {"accessReg", "writeReg", "readReg"}

\* C8: after every call accessReg (ir, wdata, len) with len <= 64 returns,
\* the controller state is Update-DR, whatever the state before the call and
\* whether the IR was shifted (ir # mLastIr) or not (ir = mLastIr).
C8_AccessEndsInUpdateDr ==
  (scanOut.done /\ scanIn.len <= 64) =>
     /\ ~scanOut.exited
     /\ ~scanOut.hung
     /\ scanOut.cur = UPDATE_DR
     /\ scanOut.trace[Len(scanOut.trace)].to = UPDATE_DR

\* A 64-bit access on the same-IR path, entered from Shift-DR, has returned.
C8_Witness ==
  /\ scanOut.done
  /\ scanIn.cur = SHIFT_DR /\ scanIn.ir = BYPASS0 /\ scanIn.len = 64
  /\ \A i \in 1..Len(scanOut.trace) : scanOut.trace[i].to # UPDATE_IR
  /\ scanOut.cur = UPDATE_DR

\* C9 as the text has it: on exit from every public Tap operation (reset,
\* accessReg, writeReg, readReg, rtiCount) the controller state is
\* Run-Test/Idle or Test-Logic-Reset.
C9_ExitInIdleOrReset ==
  tapCall.op # "none" => mCurrState \in {RUN_TEST_IDLE, TEST_LOGIC_RESET}

\* C9 as the code has it: a completed reset leaves the controller in
\* Run-Test/Idle, a register access (accessReg, writeReg, readReg) leaves it
\* in Update-DR, and rtiCount or a reset cut short by the end of the
\* simulation leaves it as it was.
C9_ExitStates ==
  /\ (tapCall.op = "reset" /\ tapCall.ok) => mCurrState = RUN_TEST_IDLE
  /\ (tapCall.op = "reset" /\ ~tapCall.ok) => mCurrState = tapCall.pre
  /\ (tapCall.op \in AccessOps /\ tapCall.ok) => mCurrState = UPDATE_DR
  /\ tapCall.op = "rtiCount" => mCurrState = tapCall.pre

\* A writeReg that followed a completed reset has returned in Update-DR.
C9_Witness ==
  /\ tapCall.op = "writeReg" /\ tapCall.pre = RUN_TEST_IDLE
  /\ mCurrState = UPDATE_DR

\* C10: when accessReg is called with the same ir as the register access
\* immediately before it, the IR shift is skipped: the controller passes
\* through neither Shift-IR nor Update-IR during the call.
C10_SameIrSkipsIrShift ==
  (tapCall.op \in AccessOps /\ tapCall.prevIr = {tapCall.ir}) =>
     \A i \in 1..Len(tapCall.trace) :
        tapCall.trace[i].to \notin {SHIFT_IR, UPDATE_IR}

\* The TCK cycles of a call that end with the controller in Run-Test/Idle
RtiCycles(tr) == Cardinality({i \in 1..Len(tr) : tr[i].to = RUN_TEST_IDLE})

\* C11: when accessReg takes the same-IR path (ir = mLastIr) after another
\* register access, the controller spends the configured number of TCK cycles
\* (mRtiCount) in Run-Test/Idle before the DR scan begins.
C11_DwellsRtiCount ==
  (tapCall.op \in AccessOps /\ tapCall.ok /\ tapCall.ir = tapCall.lastIr
     /\ tapCall.pre = UPDATE_DR) =>
     RtiCycles(tapCall.trace) = tapCall.rti

\* The TCK cycles of a trace taken in Shift-DR, in order: each clocks one
\* bit into the DR
ShiftDrCycles(tr) == SelectSeq(tr, LAMBDA e : e.from = SHIFT_DR)

\* C12: for every len from 1 to 64, accessReg clocks exactly len bits of
\* wdata into the DR while in Shift-DR, LSB first, with TMS high only on the
\* last of them, and the value it returns has no bit at position >= len
\* (for the 32-bit IDCODE register it is the register's value).  The call
\* starts where a public operation leaves the controller.
C12_ShiftsLenBits ==
  (scanOut.done /\ scanIn.len <= 64 /\ scanIn.cur \in {RUN_TEST_IDLE, UPDATE_DR}) =>
     /\ Len(ShiftDrCycles(scanOut.trace)) = scanIn.len
     /\ \A k \in 1..Len(ShiftDrCycles(scanOut.trace)) :
          /\ ShiftDrCycles(scanOut.trace)[k].tdi = Bit(scanIn.wdata, k - 1)
          /\ ShiftDrCycles(scanOut.trace)[k].tms = (IF k = scanIn.len THEN 1 ELSE 0)
     /\ scanOut.reg \subseteq 0..(scanIn.len - 1)
     /\ (scanIn.ir = IDCODE /\ scanIn.len = 32) => scanOut.reg = DutIdcode

\* C13: starting from any of the 16 states, holding TMS = 1 brings the
\* controller to Test-Logic-Reset within 5 TCK cycles: after a run of five or
\* more cycles with TMS = 1 the state is Test-Logic-Reset.
C13_FiveOnesReset ==
  (tapCall.op = "nextState" /\ tapCall.ones >= 5) => mCurrState = TEST_LOGIC_RESET

\* The longest way: five cycles of TMS = 1 that began in Shift-DR
C13_Witness ==
  /\ tapCall.op = "nextState" /\ tapCall.ones = 5 /\ tapCall.runFrom = SHIFT_DR
  /\ tapCall.pre = SELECT_IR_SCAN /\ mCurrState = TEST_LOGIC_RESET

\* C14: the next-state function is total over the 16 states and both TMS
\* values, and is the transition graph of IEEE 1149.1.
C14_StandardGraph ==
  tapCall.op = "nextState" =>
     /\ mCurrState \in States
     /\ mCurrState = Ieee1149Next(tapCall.pre, tapCall.tms)

\* The transition from Exit2-IR back to Shift-IR has been taken
C14_Witness ==
  /\ tapCall.op = "nextState" /\ tapCall.pre = EXIT2_IR /\ tapCall.tms = 0
  /\ mCurrState = SHIFT_IR

C16_RejectsLongScan ==
  [][/\ exited' => (tapCall'.op \in AccessOps /\ tapCall'.len > 64)
     /\ (tapCall' # tapCall /\ tapCall'.op \in AccessOps /\ tapCall'.len > 64) =>
          /\ exited'
          /\ mMcu' = mMcu /\ dut' = dut /\ mCurrState' = mCurrState
          /\ tapCall'.trace = <<>> /\ tapCall'.drv = {} /\ tapCall'.smp = {}]_vars

\* A 65-bit access of dtmcs, made after another access, has ended the process
C16_Witness ==
  /\ exited /\ tapCall.op = "accessReg" /\ tapCall.len = 65 /\ tapCall.ir = DTMCS
  /\ tapCall.pre = UPDATE_DR /\ mCurrState = UPDATE_DR

\* C17: TDO is read only at moments when tapNegedge () is true, in every
\* Tap operation.
C17_TdoAtNegedge ==
  tapCall.op \in AccessOps \cup {"reset"} => \A e \in tapCall.smp : e.neg

\* C18 as the text has it: TMS and TDI are driven only at moments when
\* tapPosedge () is true, in every Tap operation including reset.
C18_DrivesAtPosedge ==
  tapCall.op \in AccessOps \cup {"reset"} => \A e \in tapCall.drv : e.pos

\* C18 as the code has it: the register accesses drive TMS and TDI only in
\* advanceState, when tapPosedge () is true; reset writes TMS = 0 before
\* every half-period of the reset window, whatever the edge.
C18_DrivesAtPosedgeButReset ==
  /\ tapCall.op \in AccessOps =>
        \A e \in tapCall.drv : e.by = "advanceState" /\ e.pos
  /\ tapCall.op = "reset" =>
        \A e \in tapCall.drv : e.by = "reset" /\ e.tms = 0

\* An access has driven TMS high at a posedge, after a reset that had driven
\* TMS away from one
C18_Witness ==
  /\ tapCall.op \in AccessOps /\ tapCall.ok
  /\ \E e \in tapCall.drv : e.tms = 1 /\ e.pos
  /\ \E e \in tapCall.drv : e.tms = 0 /\ e.pos

(***************************************************************************)
(* Properties of DtmJtag                                                   *)
(***************************************************************************)
DmiOps == {"read", "write"}

\* The positions of the polls of the operation that came back RETRY
RetryPolls ==
  {i \in 1..Len(dtmOp.log) :
     dtmOp.log[i].scan = "poll" /\ dtmOp.log[i].res = RES_RETRY}

LastScan == dtmOp.log[Len(dtmOp.log)]

\* C4: dmiRead and dmiWrite return only after a dmiaccess scan whose result
\* is not RETRY; when the device reports no ERROR during the operation, the
\* scan they return after has result OK, however many RETRYs came before.
C4_ReturnAfterNonRetry ==
  (dtmOp.kind \in DmiOps /\ dtmOp.done) =>
     /\ LastScan.scan = "poll"
     /\ LastScan.res # RES_RETRY
     /\ (\A i \in 1..Len(dtmOp.log) : dtmOp.log[i].res # RES_ERROR)
           => LastScan.res = RES_OK

\* A dmiWrite has returned on OK after MaxLat polls that came back RETRY.
C4_Witness ==
  /\ dtmOp.kind = "write" /\ dtmOp.done
  /\ Cardinality(RetryPolls) = MaxLat
  /\ LastScan.res = RES_OK

\* C5: each time a dmiaccess poll inside dmiRead or dmiWrite comes back
\* RETRY, exactly one dtmcs write with bit 16 set follows before the next
\* dmiaccess scan, and the scan after that write is a dmiaccess poll.
C5_RetryThenOneDmiReset ==
  dtmOp.kind \in DmiOps =>
    \A i \in RetryPolls :
       /\ i = Len(dtmOp.log) => dtmPc = "dmireset"
       /\ i < Len(dtmOp.log) =>
            dtmOp.log[i + 1].scan = "dtmcs" /\ 16 \in dtmOp.log[i + 1].val
       /\ i + 1 = Len(dtmOp.log) => dtmPc = "poll"
       /\ i + 2 <= Len(dtmOp.log) => dtmOp.log[i + 2].scan = "poll"

\* A dmiRead has returned after two RETRYs, each followed by its DMI reset.
C5_Witness ==
  /\ dtmOp.kind = "read" /\ dtmOp.done
  /\ Cardinality(RetryPolls) >= 2
  /\ Len(dtmOp.log) = 2 + 2 * Cardinality(RetryPolls)

\* C6 as the text has it: on RETRY the DTM hard-resets the DMI, the dtmcs
\* value it writes having bit 17 (dmihardreset) set.
C6_RetryHardResets ==
  dtmOp.kind \in DmiOps =>
    \A i \in 1..Len(dtmOp.log) :
       dtmOp.log[i].scan = "dtmcs" => 17 \in dtmOp.log[i].val

\* C6 as the code has it: on RETRY the dtmcs value written is 0x10000, bit
\* 16 (dmireset) set and bit 17 (dmihardreset) clear.
C6_RetryDmiResets ==
  dtmOp.kind \in DmiOps =>
    \A i \in 1..Len(dtmOp.log) :
       dtmOp.log[i].scan = "dtmcs" =>
          16 \in dtmOp.log[i].val /\ 17 \notin dtmOp.log[i].val

\* The dtmcs write after a RETRY has just been scanned: the device's sticky
\* state is cleared and the operation it was busy with is still under way.
C6_Witness ==
  /\ dtmOp.kind \in DmiOps /\ dtmPc = "poll"
  /\ LastScan.scan = "dtmcs"
  /\ dut.stat = RES_OK /\ dut.lat > 0

\* C7: on the ideal device, a dmiRead (a) that follows a dmiWrite (a, v)
\* with no other write to a in between returns v; the dmiWrite scan carries
\* op in bits 1:0, the data in bits 33:2 and the address from bit 34 up.
C7_WriteThenRead ==
  /\ (dut.kind = "ideal" /\ dtmOp.kind = "read" /\ dtmOp.done
        /\ dmiWritten[dtmOp.addr] # {})
       => dmiWritten[dtmOp.addr] = {dtmOp.ret}
  /\ (dut.kind = "ideal" /\ dtmOp.kind = "write")
       => /\ Field(dtmOp.log[1].val, 0, 2) = IntToBits(OP_WRITE, 2)
          /\ Field(dtmOp.log[1].val, 2, 32) = dtmOp.wdata
          /\ Field(dtmOp.log[1].val, 34, 30) = IntToBits(dtmOp.addr, 30)

\* A dmiRead (0x10) after dmiWrite (0x10, 0x200008ae) has returned that value
\* while address 4 holds another.
C7_Witness ==
  /\ dut.kind = "ideal" /\ dtmOp.kind = "read" /\ dtmOp.done
  /\ dtmOp.addr = 16
  /\ dmiWritten[16] = {{1, 2, 3, 5, 7, 11, 29}}
  /\ dmiWritten[4] = {{0, 31}}
  /\ dtmOp.ret = {1, 2, 3, 5, 7, 11, 29}

(***************************************************************************)
(* Properties of the memory transfers                                      *)
(***************************************************************************)
\* The byte at offset k of word a lies in [addr, addr + n)
InTransfer(a, k) ==
  LET e == MemEndByte(memIn.addr, memIn.n)
  IN /\ (a > memIn.addr.w \/ (a = memIn.addr.w /\ k >= memIn.addr.o))
     /\ (a < e.w \/ (a = e.w /\ k < e.o))

\* The byte of memory at address addr + i
MemByteAt(mem, addr, i) ==
  LET a == (addr.w + ((addr.o + i) \div 4)) % AddrWords
  IN SbMemRead(mem, a)[((addr.o + i) % 4) + 1]

\* C1: for any buffer b of n bytes and any address a in the 32-bit range,
\* writeMem (a, b) followed by readMem (a, n) returns exactly b.
C1_WriteThenReadReturnsB ==
  memPhase = "reread" =>
     /\ ~memWrote.overrun /\ ~memGot.overrun
     /\ memGot.err = SBERR_NONE
     /\ Len(memGot.buf) >= memIn.n
     /\ SubSeq(memGot.buf, 1, memIn.n) = memIn.buf

\* C2: when the start or the end of the range writeMem writes is not
\* word-aligned, every byte of the first and the last word written that lies
\* outside [addr, addr + n) keeps the value it had before the call.
C2_BoundaryBytesKept ==
  (memPhase = "written" /\ memIn.n > 0
     /\ (memIn.addr.o # 0 \/ MemEndByte(memIn.addr, memIn.n).o # 0)) =>
     \A a \in {memIn.addr.w, MemEndByte(memIn.addr, memIn.n - 1).w} \cap MemWords :
        \A k \in 0..3 :
           ~InTransfer(a, k) => sbDev.mem[a][k + 1] = MemInit[a][k + 1]

\* C3: for any addr and n, readMem stores exactly n bytes in the buffer,
\* byte i being the byte of memory at addr + i, and never writes the buffer
\* at an index >= n.
C3_ReadStoresExactlyN ==
  memPhase \in {"read", "reread"} =>
     /\ ~memGot.overrun
     /\ Len(memGot.buf) = memIn.n
     /\ \A i \in 0..(memIn.n - 1) :
          memGot.buf[i + 1] = MemByteAt(sbDev.mem, memIn.addr, i)

(***************************************************************************)
(* Properties of the register access of Dmi                                *)
(***************************************************************************)
CsrOps == {"readCsr", "writeCsr"}

\* Where in the log of a call the command register is written
CommandAt(log) == CHOOSE i \in 1..Len(log) : log[i].wr /\ log[i].addr = COMMAND_DMI_ADDR

\* Entry i of the log is a read of abstractcs
AbstractcsReadAt(log, i) == ~log[i].wr /\ log[i].addr = ABSTRACTCS_DMI_ADDR

\* C19: after writing the command register, readCsr and writeCsr make no
\* DMI access other than reads of abstractcs, and so neither read data[0]
\* nor act on cmderr, until a read of abstractcs has shown busy clear.
C19_WaitsForBusyClear ==
  csrCall.op \in CsrOps =>
     \E j \in (CommandAt(csrCall.log) + 1)..Len(csrCall.log) :
        /\ AbstractcsReadAt(csrCall.log, j)
        /\ BUSY_OFFSET \notin csrCall.log[j].val
        /\ \A k \in (CommandAt(csrCall.log) + 1)..(j - 1) : AbstractcsReadAt(csrCall.log, k)

\* The cmderr field of the value the call read from abstractcs
CmderrRead(log) ==
  BitsToInt(Field(log[CommandAt(log) + 1].val, CMDERR_OFFSET, CMDERR_SIZE))

\* C20: when cmderr reads BUSY after the command, readCsr and writeCsr then
\* make exactly four DMI accesses, all writes of dmcontrol: with ndmreset
\* set, with ndmreset clear, with dmactive clear, with dmactive set, in
\* that order; and they return BUSY.
C20_BusyRecovery ==
  (csrCall.op \in CsrOps /\ CmderrRead(csrCall.log) = CMDERR_BUSY) =>
     /\ csrCall.err = CMDERR_BUSY
     /\ Let(SubSeq(csrCall.log, CommandAt(csrCall.log) + 2, Len(csrCall.log)), LAMBDA w :
          /\ Len(w) = 4
          /\ \A i \in 1..4 : w[i].wr /\ w[i].addr = DMCONTROL_DMI_ADDR
          /\ NDMRESET_OFFSET \in w[1].val
          /\ NDMRESET_OFFSET \notin w[2].val
          /\ DMACTIVE_OFFSET \notin w[3].val
          /\ DMACTIVE_OFFSET \in w[4].val)

\* A readCsr or writeCsr that read cmderr BUSY and has returned it, on a
\* device that is active again afterwards
C20_Witness ==
  /\ csrCall.op \in CsrOps
  /\ CmderrRead(csrCall.log) = CMDERR_BUSY
  /\ csrCall.err = CMDERR_BUSY
  /\ DMACTIVE_OFFSET \in acDev.dmcontrol

\* The values of cmderr other than NONE and BUSY that the debug module reports
CmderrOthers ==
  {CMDERR_UNSUPPORTED, CMDERR_EXCEPT, CMDERR_HALT_RESUME, CMDERR_BUS, CMDERR_OTHER}

\* C21: when cmderr reads UNSUPPORTED, EXCEPT, HALT_RESUME, BUS or OTHER after
\* the command, readCsr and writeCsr then make exactly one DMI access, a
\* write of abstractcs with all three cmderr bits set, and return the value
\* of cmderr they read.
C21_OtherErrorCleared ==
  (csrCall.op \in CsrOps /\ CmderrRead(csrCall.log) \in CmderrOthers) =>
     /\ csrCall.err = CmderrRead(csrCall.log)
     /\ Let(SubSeq(csrCall.log, CommandAt(csrCall.log) + 2, Len(csrCall.log)), LAMBDA w :
          /\ Len(w) = 1
          /\ w[1].wr /\ w[1].addr = ABSTRACTCS_DMI_ADDR
          /\ CmderrBits \subseteq w[1].val)

\* A readCsr or writeCsr that read cmderr BUS, returned it and left the
\* device with cmderr clear
C21_Witness ==
  /\ csrCall.op \in CsrOps
  /\ CmderrRead(csrCall.log) = CMDERR_BUS
  /\ csrCall.err = CMDERR_BUS
  /\ acDev.cmderr = CMDERR_NONE

(***************************************************************************)
(* Properties of Dmi::readMem and Dmi::writeMem on a failing bus           *)
(***************************************************************************)
\* C22: when readMem or writeMem returns an error other than SBERR_NONE,
\* sberror of the device's sbcs is clear.
C22_ErrorCleared ==
  /\ (memPhase = "written" /\ memWrote.err # SBERR_NONE) =>
       sbDev.sbcs \cap SbcsErrorBits = {}
  /\ (memPhase \in {"read", "reread"} /\ memGot.err # SBERR_NONE) =>
       sbDev.sbcs \cap SbcsErrorBits = {}

(***************************************************************************)
(* Properties of DtmJtag::reset                                            *)
(***************************************************************************)
\* C30: after a DtmJtag::reset that returned true, mDmiWidth is 34 plus
\* bits 9:4 of the dtmcs read during the reset and Tap::mRtiCount is bits
\* 14:12 of it; both are the device's abits and idle.
C30_ResetTakesDtmcs ==
  (dtmOp.kind = "reset" /\ dtmOp.ok) =>
     /\ mDmiWidth = 34 + BitsToInt(Field(dtmOp.wdata, 4, 6))
     /\ mRtiCount = BitsToInt(Field(dtmOp.wdata, 12, 3))
     /\ mDmiWidth = 34 + dut.abits
     /\ mRtiCount = dut.idle

\* A reset has succeeded on a device with abits 7 and idle 5: the width
\* went from 42 to 41 and the idle count from 1 to 5
C30_Witness ==
  /\ dtmOp.kind = "reset" /\ dtmOp.ok
  /\ dut.abits = DutAbits /\ dut.idle = 5
  /\ mDmiWidth = 41 /\ mRtiCount = 5

(***************************************************************************)
(* Properties of Cv32e40 and of Dmi::hartsellen                            *)
(***************************************************************************)
\* The last DMI access of the last call
LastAccess == csrCall.log[Len(csrCall.log)]

\* C23: a turn of the loop of wait that starts when the simulator is all
\* done, the simulated time at its end or $finish met, ends the wait even
\* if the hart has not halted.
C23_WaitEndsWhenAllDone ==
  [][(cv.pc = "wait" /\ CvAllDone) => cv'.pc # "wait"]_vars

C26_HaltReadsDmstatus ==
  (cv.op = "halt" /\ cv.mDmi) =>
     /\ cv.pc # "crashed"
     /\ \E i \in 2..Len(csrCall.log) :
          /\ ~csrCall.log[i].wr /\ csrCall.log[i].addr = DMSTATUS_DMI_ADDR
          /\ (cv.ret = "true") <=> (csrCall.log[i].val \cap DmstatusHalted # {})

\* C27: for a register number r of the debugger in 33..64, the command of
\* readRegister and writeRegister carries regno 0x1020 + (r - 33).
C27_FprRegno ==
  (cv.op \in {"readRegister", "writeRegister"}
     /\ cv.reg >= REG_FT0_GDBNUM /\ cv.reg < REG_CSR0_GDBNUM) =>
     \E i \in 1..Len(csrCall.log) :
        /\ csrCall.log[i].wr /\ csrCall.log[i].addr = COMMAND_DMI_ADDR
        /\ BitsToInt(Field(csrCall.log[i].val, 0, REGNO_SIZE))
             = FPR_BASE + (cv.reg - REG_FT0_GDBNUM)

\* C28: reset returns SUCCESS and leaves the adapter without a Dmi, and no
\* call after it makes a DMI access.
C28_ResetDropsDmi ==
  /\ cv.op = "reset" => (~cv.mDmi /\ cv.ret = "SUCCESS")
  /\ ~cv.mDmi => csrCall.log = <<>>

\* A call through mDmi after reset has ended the process
C28_Witness ==
  /\ ~cv.mDmi
  /\ cv.op = "readRegister"
  /\ cv.pc = "crashed"

\* C29: after its write of dmcontrol hartsellen reads dmcontrol from the
\* debug module and returns the hartsel of the value read.
C29_HartsellenReadsBack ==
  cv.op = "hartsellen" =>
     \E i \in 2..Len(csrCall.log) :
        /\ ~csrCall.log[i].wr /\ csrCall.log[i].addr = DMCONTROL_DMI_ADDR
        /\ cv.num = hartselOf(csrCall.log[i].val)

(***************************************************************************)
(* Properties of VSim                                                      *)
(***************************************************************************)
\* C31: after every advanceHalfPeriod, tapPosedge () is true exactly when
\* TCK went from 0 to 1 in that advance, tapNegedge () exactly when it went
\* from 1 to 0, and the two are never both true.
C31_FlagsDescribeTransition ==
  [][tapCall'.op = "advanceHalfPeriod" =>
       /\ mMcu'.pos <=> (mMcu.tck = 0 /\ mMcu'.tck = 1)
       /\ mMcu'.neg <=> (mMcu.tck = 1 /\ mMcu'.tck = 0)
       /\ ~(mMcu'.pos /\ mMcu'.neg)]_vars

\* An advance out of reset has raised TCK, and tapPosedge () says so
C31_Witness ==
  /\ tapCall.op = "advanceHalfPeriod"
  /\ ~inReset(mMcu)
  /\ mMcu.tck = 1 /\ mMcu.pos /\ ~mMcu.neg

(***************************************************************************)
(* Properties of the field schemas                                         *)
(***************************************************************************)
\* C32: for every field of every DMI register with a field schema, mask is
\* ((1 << size) - 1) << offset and offset + size is at most 32; stated of
\* the field whose accessor has been called.
C32_MaskIsSizeAtOffset ==
  csrCall.op \in {"get", "set"} =>
     /\ FieldTable[csrCall.addr].mask = SchemaMask(FieldTable[csrCall.addr])
     /\ FieldTable[csrCall.addr].offset + FieldTable[csrCall.addr].size <= 32

(***************************************************************************)
(* Properties of the write-1-to-clear fields                               *)
(***************************************************************************)
\* The write-1-to-clear bits of a register, and the errors its device holds
W1cBits(reg) ==
  IF reg = "sbcs" THEN SbcsErrorBits \cup {SBBUSYERROR_OFFSET} ELSE CmderrBits

W1cCached(reg) == IF reg = "sbcs" THEN mSbRegs.mSbcsReg ELSE mDmRegs.mAbstractcsReg

W1cDevClean(reg) ==
  IF reg = "sbcs" THEN sbDev.sbcs \cap W1cBits("sbcs") = {}
  ELSE acDev.cmderr = CMDERR_NONE

\* C33: the reset of abstractcs and of sbcs and the clear operations of
\* cmderr, sbbusyerror and sberror leave the bits of those fields set to 1
\* in the cached value, and the write of the register that follows a reset
\* leaves the debug module without an error in them.
C33_ResetLeavesW1cSet ==
  /\ csrCall.op = "reset" => W1cBits(csrCall.reg) \subseteq W1cCached(csrCall.reg)
  /\ csrCall.op = "cmderrClear" => CmderrBits \subseteq mDmRegs.mAbstractcsReg
  /\ csrCall.op = "sberrorClear" => SbcsErrorBits \subseteq mSbRegs.mSbcsReg
  /\ csrCall.op = "sbbusyerrorClear" => SBBUSYERROR_OFFSET \in mSbRegs.mSbcsReg
  /\ (csrCall.op = "write" /\ csrCall.prev = "reset") => W1cDevClean(csrCall.reg)

(***************************************************************************)
(* Properties of Cv32e40 on a debug module that resumes late               *)
(***************************************************************************)
\* C34: when wait returns after a resume for a step, the haltsum[0] value
\* it acted on was read after the hart had left the halted state, whatever
\* the latency of the debug module in acting on resumereq.
C34_WaitSeesFreshHalt ==
  (cv.op = "wait" /\ cv.mRunAction = "STEP" /\ cv.pc = "idle") => cv.left

(***************************************************************************)
(* Properties of Cv32e40 on a debug module whose commands may fail         *)
(***************************************************************************)
ResumeWritten(log) ==
  \E i \in 1..Len(log) :
     log[i].wr /\ log[i].addr = DMCONTROL_DMI_ADDR /\ RESUMEREQ_OFFSET \in log[i].val

\* C35: when resume returns false because the read or the write of dcsr
\* failed, it has written no dmcontrol value with resumereq set, and the
\* hart is still halted.
C35_NoResumeAfterFailure ==
  (cv.op = "resume" /\ cv.ret = "false") =>
     /\ ~ResumeWritten(csrCall.log)
     /\ acDev.halted

(***************************************************************************)
(* Properties of dmcontrol as Dmi and Cv32e40 write it                     *)
(***************************************************************************)
\* The hart that the constructor of Cv32e40 and its halt select
CvHart == 0

DmcontrolWrites(log) ==
  {i \in 1..Len(log) : log[i].wr /\ log[i].addr = DMCONTROL_DMI_ADDR}

\* C36: after the caller has selected hart h with selectHart or haltHart,
\* every dmcontrol value written later, a call of hartsellen included,
\* carries hartsel = h; the adapter selects hart 0 and no other.
C36_HartselKept ==
  \A i \in DmcontrolWrites(csrCall.log) : hartselOf(csrCall.log[i].val) = CvHart

\* C37: no dmcontrol value written to the debug module, by the constructor,
\* halt, resume or wait, has both haltreq and resumereq set.
C37_NeverHaltAndResume ==
  \A i \in DmcontrolWrites(csrCall.log) :
     ~({HALTREQ_OFFSET, RESUMEREQ_OFFSET} \subseteq csrCall.log[i].val)

\* resume has written dmcontrol with resumereq and without haltreq, and the
\* cached dmcontrol holds that value
C37_Witness ==
  /\ cv.op = "resume"
  /\ \E i \in DmcontrolWrites(csrCall.log) :
        /\ RESUMEREQ_OFFSET \in csrCall.log[i].val
        /\ HALTREQ_OFFSET \notin csrCall.log[i].val
  /\ HALTREQ_OFFSET \notin mDmRegs.mDmcontrolReg
  /\ RESUMEREQ_OFFSET \in mDmRegs.mDmcontrolReg

(***************************************************************************)
(* Properties of DtmJtag for every address size                            *)
(***************************************************************************)
\* C38: whatever abits the dtmcs read by reset reports, the dmiaccess scans
\* of dmiRead and dmiWrite are at most 64 bits wide, the Tap takes them
\* without ending the process, and the scan that starts the access carries
\* the address masked to abits bits.
C38_ScanFitsEveryAbits ==
  dtmOp.kind \in {"read", "write"} =>
     /\ ~exited
     /\ mDmiWidth <= 64
     /\ Shr64(dtmOp.log[1].val, 34) = IntToBits(dtmOp.addr, 31) \cap mDmiAddrMask

\* The bits of dcsr that neither the given clearing nor a halt writes
DcsrKept(d, cleared) == d.regs[DCSR] \ (cleared \cup DcsrCause)

\* C39: the turn of wait that ends a step changes no bit of the hart's dcsr
\* other than step, and the turn that ends a continue none other than the
\* ebreak bits, whatever cmderr the read of dcsr before the write returned
\* (cause, which the hart sets when it halts, is left out).
C39_DcsrClearKeepsOtherBits ==
  [][(cv'.op = "wait" /\ cv'.pc = "idle") =>
       /\ cv'.mRunAction = "STEP" => DcsrKept(acDev', DcsrStep) = DcsrKept(acDev, DcsrStep)
       /\ cv'.mRunAction = "CONTINUE" =>
            DcsrKept(acDev', DcsrEbreaks) = DcsrKept(acDev, DcsrEbreaks)]_vars

\* C40: for every pair of current state and target state of the 16 TAP
\* states, gotoState ends in the target state after a bounded number of TCK
\* cycles, each driven with the TMS value of the first-step table; its loop
\* never runs on through states other than the target.
C40_GotoStateTerminates ==
  tapCall.op = "gotoState" =>
    /\ ~tapCall.hung
    /\ mCurrState = tapCall.target
    /\ Len(tapCall.trace) <= GotoFuel
    /\ \A i \in 1..Len(tapCall.trace) :
         /\ tapCall.trace[i].from # tapCall.target
         /\ tapCall.trace[i].tms = nextStateTab[tapCall.trace[i].from + 1][tapCall.target + 1]

\* The longest walk: from Shift-DR to Exit2-IR, eight TCK cycles
C40_Witness ==
  /\ tapCall.op = "gotoState"
  /\ tapCall.pre = SHIFT_DR
  /\ tapCall.target = EXIT2_IR
  /\ mCurrState = EXIT2_IR
  /\ Len(tapCall.trace) = 8

====
